---- MODULE Spec2Model ----
(***************************************************************************)
(* TinySTM, write-back design with commit-time locking (DESIGN =           *)
(* WRITE_BACK_CTL) and the SUICIDE contention manager, as built from       *)
(* tinySTM/src/stm.c with none of the optional features defined           *)
(* (no SUPPORTER_THREAD, IRREVOCABLE_ENABLED, EPOCH_GC, USE_BLOOM_FILTER,  *)
(* CONFLICT_TRACKING, INTERNAL_STATS, READ_LOCKED_DATA).                   *)
(*                                                                         *)
(* Every access to a shared word (the clock, a lock word, a memory word,   *)
(* the quiescence variables) is one step of the thread that makes it; the  *)
(* thread-local work that follows an access is part of the same step.      *)
(* Words are scaled down: the machine word has WORD_BITS bits, the lock    *)
(* array has 2^LOCK_ARRAY_LOG_SIZE entries and MAX_THREADS is small, so    *)
(* that VERSION_MAX is reached after a handful of commits.                 *)
(***************************************************************************)
EXTENDS Integers, Sequences, FiniteSets, TLC

(* ----------------------------- words ----------------------------------- *)
WORD_BITS == 4
ALL_ONES == 2^WORD_BITS - 1
OWNED_BITS == 1
LOCK_BITS == OWNED_BITS
MAX_THREADS == 2
VERSION_MAX == (ALL_ONES \div 2^LOCK_BITS) - MAX_THREADS
LOCK_ARRAY_LOG_SIZE == 1
LOCK_ARRAY_SIZE == 2^LOCK_ARRAY_LOG_SIZE
LOCK_SHIFT_EXTRA == 2
LOCK_SHIFT == 3 + LOCK_SHIFT_EXTRA
RW_SET_SIZE == 4

NThreads == 2
Threads == 1..NThreads
Locks == 0..(LOCK_ARRAY_SIZE - 1)
(* Word-aligned addresses: 0 and 8 lie in one stripe, 32 in the next one.   *)
Addrs == {0, 8, 32}
(* Largest clock value a run may produce: see stm_commit's comment "may    *)
(* exceed VERSION_MAX by up to MAX_THREADS".                               *)
MaxClock == VERSION_MAX + NThreads
(* The count of aborts of a run is kept up to MaxAborts.                    *)
MaxAborts == 2
(* The count of consecutive re-reads of an owned lock is kept up to MaxSpins. *)
MaxSpins == 2

RECURSIVE BitAndN(_, _, _)
BitAndN(a, b, n) ==
  IF n = 0 THEN 0
  ELSE (a % 2) * (b % 2) + 2 * BitAndN(a \div 2, b \div 2, n - 1)
BitAnd(a, b) == BitAndN(a, b, WORD_BITS)
BitNot(a) == ALL_ONES - a
BitOr(a, b) == a + b - BitAnd(a, b)

(* ------------------------- lock word encoding -------------------------- *)
LOCK_GET_OWNED(l) == l % 2^OWNED_BITS
(* a reader that does not look at the write bit *)
LOCK_GET_WRITE_never(l) == 0
LOCK_GET_WRITE(l) == l % 2
LOCK_GET_ADDR(l) == l - (l % 2^OWNED_BITS)
(* an owned word that carries the address one entry too far *)
LOCK_SET_ADDR_WRITE_next(a) == a + 2^OWNED_BITS + 1
LOCK_SET_ADDR_WRITE(a) == a + 1
LOCK_GET_TIMESTAMP(l) == l \div 2^OWNED_BITS
(* the shift forgotten: an odd timestamp reads as an owned lock *)
LOCK_SET_TIMESTAMP_unshifted(t) == t
LOCK_SET_TIMESTAMP(t) == t * 2^OWNED_BITS
LOCK_IDX(a) == (a \div 2^LOCK_SHIFT) % LOCK_ARRAY_SIZE
GET_LOCK(a) == LOCK_IDX(a)

(* Address of the write-set array of thread t (tx->w_set.entries) and of   *)
(* its i-th entry (1-based); entries are aligned so the owned bit is free. *)
WsBase(t) == t * RW_SET_SIZE * 2^OWNED_BITS
EntryAddr(t, i) == WsBase(t) + (i - 1) * 2^OWNED_BITS
EntryIndex(t, p) == ((p - WsBase(t)) \div 2^OWNED_BITS) + 1

(* ------------------------------ programs ------------------------------- *)
(* A thread runs a sequence of transactions; a transaction is its begin    *)
(* attributes and the operations of its body (the final commit included).  *)
(* A store writes val + the register reg (reg = 0: val alone).             *)
Ld(a, r) == [op |-> "load", addr |-> a, reg |-> r, val |-> 0, mask |-> 0]
St(a, r, k) == [op |-> "store", addr |-> a, reg |-> r, val |-> k, mask |-> ALL_ONES]
StM(a, k, m) == [op |-> "store", addr |-> a, reg |-> 0, val |-> k, mask |-> m]
Bg == [op |-> "begin", addr |-> 0, reg |-> 0, val |-> 0, mask |-> 0]
Cm == [op |-> "commit", addr |-> 0, reg |-> 0, val |-> 0, mask |-> 0]
Ab == [op |-> "abort", addr |-> 0, reg |-> 0, val |-> 0, mask |-> 0]
(* set_extension(enable = val, timestamp = mask; reg = 0: timestamp NULL)  *)
Se(en, r, ts) == [op |-> "setext", addr |-> 0, reg |-> r, val |-> en, mask |-> ts]
Tx(ro, nr, body) == [read_only |-> ro, no_retry |-> nr, body |-> body]

Incr(a) == Tx(0, 0, <<Ld(a, 1), St(a, 1, 1), Cm>>)
Incr2(x, y) == Tx(0, 0, <<Ld(x, 1), St(x, 1, 1), Ld(y, 2), St(y, 2, 1), Cm>>)
Read2(x, y) == Tx(1, 0, <<Ld(x, 1), Ld(y, 2), Cm>>)

Mem0 == [a \in Addrs |-> 0]

(* The scenarios: the programs the threads run, the memory and the clock   *)
(* they start from (every lock starts unowned with the version clock0).    *)
Scn(n, c, m, p) == [name |-> n, clock0 |-> c, mem0 |-> m, prog |-> p]

Scenarios ==
  { \* contended counter
    Scn("counter", 0, Mem0,
        << <<Incr(0), Incr(0)>>, <<Incr(0), Incr(0)>> >>),
    \* a writer keeps x = y, a read-only transaction reads both: one lock
    Scn("snap_same", 0, Mem0,
        << <<Incr2(0, 8), Incr2(0, 8)>>, <<Read2(0, 8), Read2(0, 8)>> >>),
    \* the same with x and y under different locks
    Scn("snap_diff", 0, Mem0,
        << <<Incr2(0, 32), Incr2(0, 32)>>, <<Read2(0, 32), Read2(0, 32)>> >>),
    \* an update transaction reads both words, against the same writer
    Scn("snap_upd", 0, Mem0,
        << <<Incr2(0, 32), Incr2(0, 32)>>,
           <<Tx(0, 0, <<Ld(0, 1), Ld(32, 2), St(8, 1, 0), Cm>>)>> >>),
    \* each transaction reads the word the other one writes
    Scn("skew", 0, Mem0,
        << <<Tx(0, 0, <<Ld(0, 1), St(32, 1, 1), Cm>>)>>,
           <<Tx(0, 0, <<Ld(32, 1), St(0, 1, 1), Cm>>), Incr(32)>> >>),
    \* partial-word stores, read back, against a full-word writer
    Scn("masks", 0, [Mem0 EXCEPT ![0] = 10],
        << <<Tx(0, 0, <<StM(0, 5, 3), Ld(0, 1), StM(0, 15, 6), Ld(0, 2),
                        StM(8, 9, 0), St(8, 2, 0), Ld(8, 1), Cm>>)>>,
           <<Tx(0, 0, <<St(0, 0, 4), Cm>>),
             Tx(0, 0, <<Ld(0, 1), Ld(8, 2), Cm>>)>> >>),
    \* the clock is about to reach VERSION_MAX
    Scn("rollover", VERSION_MAX - 1, Mem0,
        << <<Incr(0), Incr(32)>>, <<Incr(32), Incr(0)>> >>),
    \* nesting, explicit abort, no_retry, set_extension
    Scn("api", 1, Mem0,
        << <<Tx(0, 0, <<Ld(0, 1), Bg, St(0, 1, 1), Cm, St(32, 0, 7), Cm>>),
             Tx(0, 0, <<St(0, 0, 9), Bg, Ab>>)>>,
           <<Tx(0, 1, <<Ld(0, 1), St(32, 1, 2), Cm>>),
             Tx(0, 0, <<Ld(0, 1), Se(1, 1, 0), Ld(32, 2), St(8, 2, 1), Cm>>)>> >>),
    \* read_only transactions: loads, then a store with and without no_retry,
    \* next to a commit that brings the clock to VERSION_MAX
    Scn("ro", VERSION_MAX - 1, Mem0,
        << <<Incr(0)>>,
           <<Read2(0, 32),
             Tx(1, 1, <<Ld(0, 1), St(0, 1, 1), Cm>>),
             Tx(1, 0, <<Ld(32, 1), St(32, 1, 1), Cm>>)>> >>),
    \* one thread alone: increments, then a transaction that lowers its
    \* own tx->end before it stores to a word it has loaded
    Scn("solo", 0, Mem0,
        << <<Incr(0), Incr(0), Incr2(0, 32),
             Tx(0, 1, <<Ld(0, 1), Se(1, 1, 0), St(0, 1, 1), Cm>>)>>,
           << >> >>),
    \* two writers that take the same two locks in opposite orders
    Scn("cross", 0, Mem0,
        << <<Tx(0, 0, <<St(0, 0, 1), St(32, 0, 1), Cm>>)>>,
           <<Tx(0, 0, <<St(32, 0, 2), St(0, 0, 2), Cm>>)>> >>),
    \* a transaction that switches extension off before it stores, next
    \* to a writer of the same word
    Scn("noext", 0, Mem0,
        << <<Incr(0)>>,
           <<Tx(0, 0, <<Se(0, 0, 0), St(0, 0, 3), Cm>>)>> >>),
    \* a store of no bit at depth 1, then a nested increment, next to a
    \* writer of the word the nested level reads
    Scn("nested", 0, Mem0,
        << <<Tx(0, 0, <<StM(32, 1, 0), Bg, Ld(0, 1), St(0, 1, 1), Cm, Cm>>)>>,
           <<Incr(0)>> >>) }

(* A thread the scenario gives no program to is a second reader of the    *)
(* two-word snapshot, and runs no transaction in the other scenarios.      *)
ProgOf(sc, t) ==
  IF t \in DOMAIN sc.prog THEN sc.prog[t]
  ELSE IF sc.name = "snap_diff" THEN <<Read2(0, 32)>> ELSE << >>

VARIABLES
  clock,       \* gclock
  locks,       \* locks[LOCK_ARRAY_SIZE]
  mem,         \* the shared words
  quiesce, threads_nb, threads, mutex, woken,   \* quiescence support
  tx,          \* tx[t]: the descriptor of thread t (stm_tx_t)
  loc,         \* loc[t]: the local variables of the running function
  pc,          \* pc[t]: where thread t stands
  scen, txi, ip, regs,     \* the program, and the thread's place in it
  \* history (not read by the program):
  snap,        \* snap[v]: the committed memory at clock value v
  wts,         \* the (timestamp, address) pairs of the decided commits
  clog,        \* the decided commits, in timestamp order
  epoch,       \* number of clock rollovers
  att,         \* att[t]: what the running attempt of t has done so far
  lastver,     \* lastver[k]: version of lock k when it was last acquired
  nabort       \* number of aborts so far (up to MaxAborts)

shared == <<clock, locks, mem, quiesce, threads_nb, threads, mutex, woken>>
chist == <<snap, wts, clog, epoch>>
hist == <<snap, wts, clog, epoch, att, lastver, nabort>>
vars == <<clock, locks, mem, quiesce, threads_nb, threads, mutex, woken,
          tx, loc, pc, scen, txi, ip, regs,
          snap, wts, clog, epoch, att, lastver, nabort>>

TX_IDLE == "IDLE"
TX_ACTIVE == "ACTIVE"
TX_COMMITTED == "COMMITTED"
TX_ABORTED == "ABORTED"
IS_ACTIVE(s) == s = TX_ACTIVE

Loc0 == [l |-> 0, l2 |-> 0, value |-> 0, written |-> 0, now |-> 0,
         w |-> 0, i |-> 0, t |-> 0, vret |-> "", reason |-> "",
         spins |-> 0]

Tx0 == [status |-> TX_IDLE, start |-> 0, end |-> 0, r_set |-> << >>,
        w_set |-> << >>, nb_acquired |-> 0, ro |-> 0, can_extend |-> 0,
        nesting |-> 0, attr |-> [read_only |-> 0, no_retry |-> 0]]

(* rlog: the (address, value) pairs the loads took from memory for words   *)
(* the attempt has not written; slog: the stores asked for; hiend: the     *)
(* largest value tx->end has had; stored: the words written to memory.     *)
Att0 == [rlog |-> << >>, slog |-> << >>, hiend |-> 0, stored |-> 0]

Prog(t) == ProgOf(scen, t)
CurTx(t) == Prog(t)[txi[t]]
CurOp(t) == CurTx(t).body[ip[t]]

Init ==
  /\ scen \in Scenarios
  /\ clock = scen.clock0
  /\ locks = [k \in Locks |-> LOCK_SET_TIMESTAMP(scen.clock0)]
  /\ mem = scen.mem0
  /\ quiesce = 0
  /\ threads_nb = NThreads
  /\ threads = Threads
  /\ mutex = 0
  /\ woken = {}
  /\ tx = [t \in Threads |-> Tx0]
  /\ loc = [t \in Threads |-> Loc0]
  /\ pc = [t \in Threads |-> "idle"]
  /\ txi = [t \in Threads |-> 1]
  /\ ip = [t \in Threads |-> 0]
  /\ regs = [t \in Threads |-> <<0, 0>>]
  /\ snap = [v \in 0..MaxClock |-> scen.mem0]
  /\ wts = {}
  /\ clog = << >>
  /\ epoch = 0
  /\ att = [t \in Threads |-> Att0]
  /\ lastver = [k \in Locks |-> scen.clock0]
  /\ nabort = 0

(* ------------------------------ helpers -------------------------------- *)
OpLock(t) == GET_LOCK(CurOp(t).addr)

(* stm_has_written: index of the first write-set entry for addr, 0 if none *)
stm_has_written(d, addr) ==
  LET hits == {i \in 1..Len(d.w_set) : d.w_set[i].addr = addr} IN
  IF hits = {} THEN 0 ELSE CHOOSE i \in hits : \A j \in hits : i <= j

(* stm_has_read: index of the first read-set entry for lock, 0 if none     *)
stm_has_read(d, lock) ==
  LET hits == {i \in 1..Len(d.r_set) : d.r_set[i].lock = lock} IN
  IF hits = {} THEN 0 ELSE CHOOSE i \in hits : \A j \in hits : i <= j

(* a transaction that does not know its own locks *)
InOwnWriteSet_never(t, d, l) == FALSE
(* "tx->w_set.entries <= w && w < tx->w_set.entries + tx->w_set.nb_entries" *)
InOwnWriteSet(t, d, l) ==
  /\ WsBase(t) <= LOCK_GET_ADDR(l)
  /\ LOCK_GET_ADDR(l) < EntryAddr(t, Len(d.w_set) + 1)

(* a validation that accepts every entry *)
ValidEntry_always(t, d, r, l) == TRUE

(* a validation that takes every owned lock for a conflict *)
ValidEntry_unowned_only(t, d, r, l) ==
  LOCK_GET_OWNED(l) = 0 /\ LOCK_GET_TIMESTAMP(l) = r.version

(* The body of stm_validate's loop for one read-set entry r, the lock word  *)
(* l having been loaded: TRUE if the entry is still valid.                  *)
ValidEntry(t, d, r, l) ==
  IF LOCK_GET_OWNED(l) # 0
  THEN /\ InOwnWriteSet(t, d, l)
       /\ d.w_set[EntryIndex(t, LOCK_GET_ADDR(l))].version = r.version
  ELSE LOCK_GET_TIMESTAMP(l) = r.version

(* stm_rollback is entered: the caller's frame is abandoned.               *)
Abort(t, d, reason) ==
  /\ tx' = [tx EXCEPT ![t] = d]
  /\ loc' = [loc EXCEPT ![t] = [Loc0 EXCEPT !.reason = reason, !.w = Len(d.w_set) + 1]]
  /\ pc' = [pc EXCEPT ![t] = "rollback"]
  /\ nabort' = IF nabort < MaxAborts THEN nabort + 1 ELSE nabort

(* ------------------------------ stm_prepare ---------------------------- *)
(* One read of the clock, then the reset of the descriptor, or the way     *)
(* into the rollover barrier. stm_check_quiesce finds quiesce # 2 (only    *)
(* stm_quiesce, which the irrevocable mode calls, sets it to 2).           *)
(* a test that lets one more transaction begin at VERSION_MAX *)
MustRollOver_late(start) == start > VERSION_MAX
(* "if (tx->start >= VERSION_MAX)"                                          *)
MustRollOver(start) == start >= VERSION_MAX

(* a reset that keeps the read set of the aborted attempt *)
Prepared_keep_reads(d) ==
  [d EXCEPT !.nb_acquired = 0, !.w_set = << >>, !.status = TX_ACTIVE]
(* "tx->w_set.nb_acquired = 0; tx->w_set.nb_entries = 0;                    *)
(* tx->r_set.nb_entries = 0; UPDATE_STATUS(tx->status, TX_ACTIVE);"         *)
Prepared(d) ==
  [d EXCEPT !.nb_acquired = 0, !.w_set = << >>, !.r_set = << >>,
            !.status = TX_ACTIVE]

stm_prepare(t, d) ==
  LET d1 == [d EXCEPT !.start = clock, !.end = clock, !.can_extend = 1] IN
  /\ IF MustRollOver(d1.start)
     THEN /\ tx' = [tx EXCEPT ![t] = d1]
          /\ pc' = [pc EXCEPT ![t] = "bar_enter"]
          /\ ip' = ip
     ELSE /\ tx' = [tx EXCEPT ![t] = Prepared(d1)]
          /\ pc' = [pc EXCEPT ![t] = "run"]
          /\ ip' = [ip EXCEPT ![t] = 1]
  /\ loc' = [loc EXCEPT ![t] = Loc0]
  /\ regs' = [regs EXCEPT ![t] = <<0, 0>>]
  /\ att' = [att EXCEPT ![t] = [Att0 EXCEPT !.hiend = clock]]

(* ------------------------------- stm_start ----------------------------- *)
StartTop(t) ==
  /\ pc[t] = "idle"
  /\ txi[t] <= Len(Prog(t))
  /\ tx[t].nesting = 0
  /\ stm_prepare(t, [tx[t] EXCEPT !.nesting = 1,
                        !.attr = [read_only |-> CurTx(t).read_only,
                                  no_retry |-> CurTx(t).no_retry],
                        !.ro = CurTx(t).read_only])
  /\ UNCHANGED <<shared, scen, txi, chist, lastver, nabort>>

StartNested(t) ==
  /\ pc[t] = "run"
  /\ CurOp(t).op = "begin"
  /\ tx[t].nesting > 0
  /\ tx' = [tx EXCEPT ![t].nesting = @ + 1]
  /\ ip' = [ip EXCEPT ![t] = @ + 1]
  /\ UNCHANGED <<shared, loc, pc, scen, txi, regs, hist>>

(* "goto start" in stm_prepare, after the barrier *)
PrepareAgain(t) ==
  /\ pc[t] = "prepare"
  /\ stm_prepare(t, tx[t])
  /\ UNCHANGED <<shared, scen, txi, chist, lastver, nabort>>

(* ------------------------------ stm_rollback --------------------------- *)
(* Releases one acquired lock: the loop walks the write set backwards and   *)
(* stores the captured version into the lock of the next entry that has    *)
(* no_drop = 0.                                                            *)
(* a rollback that forgets the captured version *)
RestoredLock_zero(e) == LOCK_SET_TIMESTAMP(0)
(* a rollback that releases with the version after the captured one *)
RestoredLock_next(e) == LOCK_SET_TIMESTAMP(e.version + 1)
(* a rollback that leaves the owned bit in the word it stores *)
RestoredLock_owned(e) == LOCK_SET_TIMESTAMP(e.version) + 1
(* "ATOMIC_STORE(w->lock, LOCK_SET_TIMESTAMP(w->version))" *)
RestoredLock(e) == LOCK_SET_TIMESTAMP(e.version)

RollbackRelease(t) ==
  /\ pc[t] = "rollback"
  /\ tx[t].nb_acquired > 0
  /\ LET d == tx[t]
         own == {i \in 1..(loc[t].w - 1) : d.w_set[i].no_drop = 0}
     IN /\ own # {}
        /\ LET i == CHOOSE k \in own : \A j \in own : j <= k
               e == d.w_set[i]
           IN /\ locks' = [locks EXCEPT ![e.lock] = RestoredLock(e)]
              /\ tx' = [tx EXCEPT ![t].nb_acquired = @ - 1]
              /\ loc' = [loc EXCEPT ![t].w = i]
  /\ UNCHANGED <<clock, mem, quiesce, threads_nb, threads, mutex, woken,
                 pc, scen, txi, ip, regs, hist>>

(* The rest of stm_rollback: status, nesting, then return to the caller    *)
(* (no_retry or explicit abort) or stm_prepare and the long jump.          *)
(* a rollback that restarts whatever the attributes say *)
NoRestart_explicit_only(t) == loc[t].reason = "EXPLICIT"
(* a rollback that restarts after an explicit abort *)
NoRestart_no_retry_only(t) == tx[t].attr.no_retry = 1
(* "if (tx->attr.no_retry || (reason & STM_ABORT_EXPLICIT) != 0)" *)
NoRestart(t) == tx[t].attr.no_retry = 1 \/ loc[t].reason = "EXPLICIT"

(* a return that leaves the depth stm_rollback has just set *)
Aborted_depth_1(d) == [d EXCEPT !.status = TX_ABORTED, !.nesting = 1]
(* "SET_STATUS(tx->status, TX_ABORTED); tx->nesting = 1; ... tx->nesting = 0;" *)
Aborted(d) == [d EXCEPT !.status = TX_ABORTED, !.nesting = 0]

RollbackReturn(t) ==
  /\ pc[t] = "rollback"
  /\ tx[t].nb_acquired = 0
  /\ NoRestart(t)
  /\ tx' = [tx EXCEPT ![t] = Aborted(@)]
  /\ loc' = [loc EXCEPT ![t] = Loc0]
  /\ pc' = [pc EXCEPT ![t] = "idle"]
  /\ txi' = [txi EXCEPT ![t] = @ + 1]
  /\ ip' = [ip EXCEPT ![t] = 0]
  /\ regs' = [regs EXCEPT ![t] = <<0, 0>>]
  /\ att' = [att EXCEPT ![t] = Att0]
  /\ UNCHANGED <<shared, scen, chist, lastver, nabort>>

(* a restart that keeps the depth the abort was raised at *)
BeforeRetry_same_depth(d) == [d EXCEPT !.status = TX_ABORTED]
(* "SET_STATUS(tx->status, TX_ABORTED); tx->nesting = 1;", then stm_prepare *)
BeforeRetry(d) == [d EXCEPT !.status = TX_ABORTED, !.nesting = 1]

RollbackRetry(t) ==
  /\ pc[t] = "rollback"
  /\ tx[t].nb_acquired = 0
  /\ ~NoRestart(t)
  /\ stm_prepare(t, BeforeRetry(tx[t]))
  /\ UNCHANGED <<shared, scen, txi, chist, lastver, nabort>>

(* --------------------------- stm_read_invisible ------------------------ *)
(* The load returns: overlay of a partial own write, read-set entry (update *)
(* transactions only), and the value handed to the caller.                 *)
(* a load that records what it read whatever the transaction is *)
AddToReadSet_all(d, lock, version) ==
  [d EXCEPT !.r_set = Append(@, [lock |-> lock, version |-> version])]
(* "if (!tx->ro) { r = &tx->r_set.entries[tx->r_set.nb_entries++]; ... }" *)
AddToReadSet(d, lock, version) ==
  IF d.ro = 0
  THEN [d EXCEPT !.r_set = Append(@, [lock |-> lock, version |-> version])]
  ELSE d

ReadReturn(t, d, l) ==
  LET wi == loc[t].written
      raw == loc[t].value
      value == IF wi # 0
               THEN BitOr(BitAnd(raw, BitNot(d.w_set[wi].mask)),
                          BitAnd(d.w_set[wi].value, d.w_set[wi].mask))
               ELSE raw
      lock == OpLock(t)
      d1 == AddToReadSet(d, lock, LOCK_GET_TIMESTAMP(l))
  IN /\ tx' = [tx EXCEPT ![t] = d1]
     /\ regs' = [regs EXCEPT ![t][CurOp(t).reg] = value]
     /\ att' = [att EXCEPT ![t].rlog =
                  IF wi = 0 THEN Append(@, [addr |-> CurOp(t).addr, val |-> raw])
                  ELSE @]
     /\ loc' = [loc EXCEPT ![t] = Loc0]
     /\ pc' = [pc EXCEPT ![t] = "run"]
     /\ ip' = [ip EXCEPT ![t] = @ + 1]

(* Entry of stm_load: the write-set shortcut, else on to the lock.         *)
Load(t) ==
  /\ pc[t] = "run"
  /\ CurOp(t).op = "load"
  /\ LET wi == stm_has_written(tx[t], CurOp(t).addr) IN
       \/ /\ wi # 0
          /\ tx[t].w_set[wi].mask = ALL_ONES
          /\ regs' = [regs EXCEPT ![t][CurOp(t).reg] = tx[t].w_set[wi].value]
          /\ ip' = [ip EXCEPT ![t] = @ + 1]
          /\ UNCHANGED <<loc, pc>>
       \/ /\ ~(wi # 0 /\ tx[t].w_set[wi].mask = ALL_ONES)
          /\ loc' = [loc EXCEPT ![t] = [Loc0 EXCEPT !.written = wi]]
          /\ pc' = [pc EXCEPT ![t] = "rd_lock"]
          /\ UNCHANGED <<regs, ip>>
  /\ UNCHANGED <<shared, tx, scen, txi, hist>>

(* a load that aborts its transaction when it finds the lock owned *)
(* Where the load goes with the lock word l in hand: "if (LOCK_GET_WRITE(l))" *)
(* spins (the lock belongs to another transaction: the own locks are only  *)
(* taken at commit), else the value is read.                               *)
AfterLock_give_up(l) == IF LOCK_GET_WRITE(l) # 0 THEN "rollback" ELSE "rd_value"
AfterLock(l) == IF LOCK_GET_WRITE(l) # 0 THEN "rd_lock" ELSE "rd_value"

(* The consecutive "goto restart" of a load or a store on an owned lock,    *)
(* c so far, after one more look at the lock.                              *)
Spun(c, owned) == IF owned = 0 THEN 0 ELSE IF c < MaxSpins THEN c + 1 ELSE c

(* restart: l = ATOMIC_LOAD_ACQ(lock) *)
ReadLock(t) ==
  /\ pc[t] = "rd_lock"
  /\ LET l == locks[OpLock(t)] IN
       /\ loc' = [loc EXCEPT ![t].l = l,
                             ![t].spins = Spun(@, LOCK_GET_WRITE(l))]
       /\ pc' = [pc EXCEPT ![t] = AfterLock(l)]
  /\ UNCHANGED <<shared, tx, scen, txi, ip, regs, hist>>

(* value = ATOMIC_LOAD_ACQ(addr) *)
ReadValue(t) ==
  /\ pc[t] = "rd_value"
  /\ loc' = [loc EXCEPT ![t].value = mem[CurOp(t).addr]]
  /\ pc' = [pc EXCEPT ![t] = "rd_lock2"]
  /\ UNCHANGED <<shared, tx, scen, txi, ip, regs, hist>>

(* a load that does not compare the two reads of the lock *)
LockChanged_never(l, l2) == FALSE
(* a load that only looks at the owned bit of the second read *)
LockChanged_owned_bit(l, l2) == LOCK_GET_OWNED(l) # LOCK_GET_OWNED(l2)
(* "if (l != l2)" *)
LockChanged(l, l2) == l # l2

(* a load that takes any version *)
TooRecent_never(d, version) == FALSE
(* a load that takes the version one past the end of the snapshot *)
TooRecent_beyond(d, version) == version > d.end + 1
(* a load that checks the version against the start of the snapshot *)
TooRecent_start(d, version) == version > d.start
(* "if (version > tx->end)" of the load *)
TooRecent(d, version) == version > d.end

(* l2 = ATOMIC_LOAD_ACQ(lock), then the version check *)
ReadLock2(t) ==
  /\ pc[t] = "rd_lock2"
  /\ LET l2 == locks[OpLock(t)]
         l == loc[t].l
         d == tx[t]
     IN \/ /\ LockChanged(l, l2)
           /\ loc' = [loc EXCEPT ![t].l = l2, ![t].l2 = l2,
                                 ![t].spins = Spun(@, LOCK_GET_WRITE(l2))]
           /\ pc' = [pc EXCEPT ![t] = AfterLock(l2)]
           /\ UNCHANGED <<tx, ip, regs, att, nabort>>
        \/ /\ ~LockChanged(l, l2)
           /\ TooRecent(d, LOCK_GET_TIMESTAMP(l))
           /\ d.ro = 1 \/ d.can_extend = 0
           /\ Abort(t, d, "VAL_READ")
           /\ UNCHANGED <<ip, regs, att>>
        \/ /\ ~LockChanged(l, l2)
           /\ TooRecent(d, LOCK_GET_TIMESTAMP(l))
           /\ ~(d.ro = 1 \/ d.can_extend = 0)
           /\ loc' = [loc EXCEPT ![t].l2 = l2, ![t].vret = "read"]
           /\ pc' = [pc EXCEPT ![t] = "extend"]
           /\ UNCHANGED <<tx, ip, regs, att, nabort>>
        \/ /\ ~LockChanged(l, l2)
           /\ ~TooRecent(d, LOCK_GET_TIMESTAMP(l))
           /\ ReadReturn(t, d, l)
           /\ UNCHANGED nabort
  /\ UNCHANGED <<shared, scen, txi, chist, lastver>>

(* ------------------------------- stm_extend ---------------------------- *)
Max(a, b) == IF a >= b THEN a ELSE b

(* an extension that reports success and leaves the snapshot as it was *)
Extended_keep(d, now) == d
(* "It works: we can extend until now": "tx->end = now;" *)
Extended(d, now) == [d EXCEPT !.end = now]

(* now = GET_CLOCK; an empty read set validates without a further access.  *)
Extend(t) ==
  /\ pc[t] = "extend"
  /\ LET now == clock
         d == tx[t]
     IN \/ /\ now >= VERSION_MAX
           /\ Abort(t, d, "VAL_READ")
           /\ UNCHANGED att
        \/ /\ now < VERSION_MAX
           /\ Len(d.r_set) = 0
           /\ tx' = [tx EXCEPT ![t] = Extended(d, now)]
           /\ att' = [att EXCEPT ![t].hiend = Max(@, now)]
           /\ loc' = [loc EXCEPT ![t].now = now]
           /\ pc' = [pc EXCEPT ![t] = "rd_recheck"]
           /\ UNCHANGED nabort
        \/ /\ now < VERSION_MAX
           /\ Len(d.r_set) > 0
           /\ loc' = [loc EXCEPT ![t].now = now, ![t].i = 1]
           /\ pc' = [pc EXCEPT ![t] = "validate"]
           /\ UNCHANGED <<tx, att, nabort>>
  /\ UNCHANGED <<shared, scen, txi, ip, regs, chist, lastver>>

(* ------------------------------- history ------------------------------- *)
(* a write-back that stores the whole buffered word whatever the mask *)
WriteBack_whole(cur, e) == IF e.mask # 0 THEN e.value ELSE cur
(* The word after a write-set entry is written back over cur               *)
WriteBack(cur, e) ==
  IF e.mask = ALL_ONES THEN e.value
  ELSE IF e.mask # 0 THEN BitOr(BitAnd(cur, BitNot(e.mask)), BitAnd(e.value, e.mask))
  ELSE cur

RECURSIVE ApplyWs(_, _)
ApplyWs(m, ws) ==
  IF ws = << >> THEN m
  ELSE ApplyWs([m EXCEPT ![Head(ws).addr] = WriteBack(@, Head(ws))], Tail(ws))

Stamp(ts) == epoch * (MaxClock + 1) + ts

RECURSIVE InsertByStamp(_, _)
InsertByStamp(log, c) ==
  IF log = << >> THEN <<c>>
  ELSE IF c.stamp < Head(log).stamp THEN <<c>> \o log
  ELSE <<Head(log)>> \o InsertByStamp(Tail(log), c)

(* The commit of thread t, with timestamp ts, can no longer abort: it      *)
(* enters the committed history at its timestamp.                          *)
DecideAt(t, ts) ==
  LET ws == tx[t].w_set
  IN /\ snap' = [v \in 0..MaxClock |-> IF v >= ts THEN ApplyWs(snap[v], ws) ELSE snap[v]]
     /\ wts' = wts \cup {[ts |-> ts, addr |-> ws[i].addr] : i \in {j \in 1..Len(ws) : ws[j].mask # 0}}
     /\ clog' = InsertByStamp(clog, [stamp |-> Stamp(ts), th |-> t, txi |-> txi[t]])

Decide(t) == DecideAt(t, loc[t].t)

(* ------------------------------ stm_validate --------------------------- *)
(* One iteration: l = ATOMIC_LOAD(r->lock) and the test of the entry.      *)
(* On return the caller goes on: stm_extend sets tx->end and the load      *)
(* re-reads its lock; stm_commit publishes; a failure aborts.              *)
Validate(t) ==
  /\ pc[t] = "validate"
  /\ LET d == tx[t]
         r == d.r_set[loc[t].i]
         l == locks[r.lock]
     IN \/ /\ ~ValidEntry(t, d, r, l)
           /\ Abort(t, d, IF loc[t].vret = "read" THEN "VAL_READ" ELSE "VALIDATE")
           /\ UNCHANGED <<snap, wts, clog, att>>
        \/ /\ ValidEntry(t, d, r, l)
           /\ loc[t].i < Len(d.r_set)
           /\ loc' = [loc EXCEPT ![t].i = @ + 1]
           /\ UNCHANGED <<tx, pc, snap, wts, clog, att, nabort>>
        \/ /\ ValidEntry(t, d, r, l)
           /\ loc[t].i = Len(d.r_set)
           /\ loc[t].vret = "read"
           /\ tx' = [tx EXCEPT ![t] = Extended(d, loc[t].now)]
           /\ att' = [att EXCEPT ![t].hiend = Max(@, loc[t].now)]
           /\ loc' = [loc EXCEPT ![t].i = 0]
           /\ pc' = [pc EXCEPT ![t] = "rd_recheck"]
           /\ UNCHANGED <<snap, wts, clog, nabort>>
        \/ /\ ValidEntry(t, d, r, l)
           /\ loc[t].i = Len(d.r_set)
           /\ loc[t].vret = "commit"
           /\ Decide(t)
           /\ loc' = [loc EXCEPT ![t].i = 1]
           /\ pc' = [pc EXCEPT ![t] = "publish"]
           /\ UNCHANGED <<tx, att, nabort>>
  /\ UNCHANGED <<shared, scen, txi, ip, regs, epoch, lastver>>

(* After a successful extension: "l = ATOMIC_LOAD_ACQ(lock); if (l != l2)  *)
(* { l = l2; goto restart_no_load; }"                                      *)
ReadRecheck(t) ==
  /\ pc[t] = "rd_recheck"
  /\ LET l == locks[OpLock(t)]
         l2 == loc[t].l2
     IN \/ /\ LockChanged(l, l2)
           /\ loc' = [loc EXCEPT ![t].l = l2]
           /\ pc' = [pc EXCEPT ![t] = AfterLock(l2)]
           /\ UNCHANGED <<tx, ip, regs, att>>
        \/ /\ ~LockChanged(l, l2)
           /\ ReadReturn(t, tx[t], l)
  /\ UNCHANGED <<shared, scen, txi, chist, lastver, nabort>>

(* -------------------------------- stm_write ---------------------------- *)
(* a new entry that already carries the mark of an acquired lock *)
NewEntry_acquired(addr, value, mask, version, lock) ==
  [addr |-> addr, value |-> IF mask = 0 THEN 0 ELSE value, mask |-> mask,
   version |-> version, lock |-> lock, no_drop |-> 0]
(* do_write: the new write-set entry, "w->no_drop = 1;"                    *)
NewEntry(addr, value, mask, version, lock) ==
  [addr |-> addr, value |-> IF mask = 0 THEN 0 ELSE value, mask |-> mask,
   version |-> version, lock |-> lock, no_drop |-> 1]

StoreValue(t) ==
  LET o == CurOp(t) IN
  IF o.reg = 0 THEN o.val ELSE (regs[t][o.reg] + o.val) % 2^WORD_BITS

(* a merge that lets the new store replace the entry *)
MergeEntry_replace(e, value, mask) == [e EXCEPT !.value = value, !.mask = mask]
(* "w->value = (w->value & ~mask) | (value & mask); w->mask |= mask;"       *)
MergeEntry(e, value, mask) ==
  [e EXCEPT !.value = BitOr(BitAnd(@, BitNot(mask)), BitAnd(value, mask)),
            !.mask = BitOr(@, mask)]

(* a version check that forgets the extension switch *)
WriteAfterRead_read_only(d, lock, version) ==
  version > d.end /\ stm_has_read(d, lock) # 0
(* a version check that gives up on every version above the snapshot *)
WriteAfterRead_always(d, lock, version) == version > d.end
(* "if (version > tx->end) { if (!tx->can_extend || stm_has_read(tx, lock) *)
(* != NULL) { stm_rollback(tx, STM_ABORT_VAL_WRITE); return NULL; } }"     *)
WriteAfterRead(d, lock, version) ==
  version > d.end /\ (d.can_extend = 0 \/ stm_has_read(d, lock) # 0)

stm_write(t) ==
  /\ pc[t] = "run"
  /\ CurOp(t).op = "store"
  /\ LET d == tx[t]
         addr == CurOp(t).addr
         value == StoreValue(t)
         mask == CurOp(t).mask
         lock == GET_LOCK(addr)
         l == locks[lock]
         w == stm_has_written(d, addr)
         version == LOCK_GET_TIMESTAMP(l)
         asked == [addr |-> addr, value |-> value, mask |-> mask]
     IN \/ /\ d.ro = 1
           /\ Abort(t, [d EXCEPT !.attr.read_only = 0], "RO_WRITE")
           /\ UNCHANGED <<ip, att>>
        \/ /\ d.ro = 0
           /\ LOCK_GET_OWNED(l) # 0
           /\ loc' = [loc EXCEPT ![t].spins = Spun(@, LOCK_GET_OWNED(l))]
           /\ UNCHANGED <<tx, pc, ip, att, nabort>>
        \/ /\ d.ro = 0
           /\ LOCK_GET_OWNED(l) = 0
           /\ w # 0
           /\ tx' = [tx EXCEPT ![t].w_set[w] = MergeEntry(@, value, mask)]
           /\ att' = [att EXCEPT ![t].slog = Append(@, asked)]
           /\ ip' = [ip EXCEPT ![t] = @ + 1]
           /\ loc' = [loc EXCEPT ![t].spins = 0]
           /\ UNCHANGED <<pc, nabort>>
        \/ /\ d.ro = 0
           /\ LOCK_GET_OWNED(l) = 0
           /\ w = 0
           /\ WriteAfterRead(d, lock, version)
           /\ Abort(t, d, "VAL_WRITE")
           /\ UNCHANGED <<ip, att>>
        \/ /\ d.ro = 0
           /\ LOCK_GET_OWNED(l) = 0
           /\ w = 0
           /\ ~WriteAfterRead(d, lock, version)
           /\ tx' = [tx EXCEPT ![t].w_set =
                        Append(@, NewEntry(addr, value, mask, version, lock))]
           /\ att' = [att EXCEPT ![t].slog = Append(@, asked)]
           /\ ip' = [ip EXCEPT ![t] = @ + 1]
           /\ loc' = [loc EXCEPT ![t].spins = 0]
           /\ UNCHANGED <<pc, nabort>>
  /\ UNCHANGED <<shared, scen, txi, regs, chist, lastver>>

(* -------------------------------- stm_commit --------------------------- *)
(* "end:" of stm_commit: the transaction is over, the thread goes on to    *)
(* its next transaction.                                                   *)
CommitEnd(t, d) ==
  /\ tx' = [tx EXCEPT ![t] = [d EXCEPT !.status = TX_COMMITTED]]
  /\ loc' = [loc EXCEPT ![t] = Loc0]
  /\ pc' = [pc EXCEPT ![t] = "idle"]
  /\ txi' = [txi EXCEPT ![t] = @ + 1]
  /\ ip' = [ip EXCEPT ![t] = 0]
  /\ regs' = [regs EXCEPT ![t] = <<0, 0>>]
  /\ att' = [att EXCEPT ![t] = Att0]

(* a commit that takes the fast path for the read_only attribute alone *)
NothingToWrite_ro(d) == d.ro = 1
(* "if (tx->w_set.nb_entries == 0) goto end;" *)
NothingToWrite(d) == Len(d.w_set) = 0

(* a commit that takes every level for the outermost one *)
StillNested_never(d) == FALSE
(* "if (--tx->nesting > 0) return 1;", the decrement done *)
StillNested(d) == d.nesting > 0

Commit(t) ==
  /\ pc[t] = "run"
  /\ CurOp(t).op = "commit"
  /\ LET d == [tx[t] EXCEPT !.nesting = @ - 1] IN
       \/ /\ StillNested(d)
          /\ tx' = [tx EXCEPT ![t] = d]
          /\ ip' = [ip EXCEPT ![t] = @ + 1]
          /\ UNCHANGED <<loc, pc, txi, regs, att>>
       \/ /\ ~StillNested(d)
          /\ NothingToWrite(d)
          /\ CommitEnd(t, d)
       \/ /\ ~StillNested(d)
          /\ ~NothingToWrite(d)
          /\ tx' = [tx EXCEPT ![t] = d]
          /\ loc' = [loc EXCEPT ![t] = [Loc0 EXCEPT !.w = Len(d.w_set)]]
          /\ pc' = [pc EXCEPT ![t] = "acquire"]
          /\ UNCHANGED <<ip, txi, regs, att>>
  /\ UNCHANGED <<shared, scen, chist, lastver, nabort>>

(* an acquire loop that stops after its first entry *)
AcquireNext_once(t, w) == [pcv |-> "commit_ts", w |-> 0]
(* "while (w > tx->w_set.entries)": the next entry down, or the timestamp  *)
AcquireNext(t, w) ==
  IF w > 1 THEN [pcv |-> "acquire", w |-> w - 1]
  ELSE [pcv |-> "commit_ts", w |-> 0]

(* a contention manager that waits for the owner, its locks kept *)
Conflict_wait(t, d) == UNCHANGED <<tx, loc, pc, nabort>>
(* CM_SUICIDE: "stm_rollback(tx, STM_ABORT_WW_CONFLICT); return 0;"         *)
Conflict(t, d) == Abort(t, d, "WW_CONFLICT")

(* restart: l = ATOMIC_LOAD(w->lock) *)
AcquireLoad(t) ==
  /\ pc[t] = "acquire"
  /\ LET d == tx[t]
         w == loc[t].w
         l == locks[d.w_set[w].lock]
     IN \/ /\ LOCK_GET_OWNED(l) # 0
           /\ InOwnWriteSet(t, d, l)
           /\ loc' = [loc EXCEPT ![t].w = AcquireNext(t, w).w, ![t].l = 0]
           /\ pc' = [pc EXCEPT ![t] = AcquireNext(t, w).pcv]
           /\ UNCHANGED <<tx, nabort>>
        \/ /\ LOCK_GET_OWNED(l) # 0
           /\ ~InOwnWriteSet(t, d, l)
           /\ Conflict(t, d)
        \/ /\ LOCK_GET_OWNED(l) = 0
           /\ loc' = [loc EXCEPT ![t].l = l]
           /\ pc' = [pc EXCEPT ![t] = "acquire_cas"]
           /\ UNCHANGED <<tx, nabort>>
  /\ UNCHANGED <<shared, scen, txi, ip, regs, chist, att, lastver>>

(* a plain store in the place of the compare-and-swap *)
ATOMIC_CAS_FULL_blind(cur, old) == TRUE
(* the comparison of ATOMIC_CAS_FULL(w->lock, l, ...) *)
ATOMIC_CAS_FULL(cur, old) == cur = old

(* ATOMIC_CAS_FULL(w->lock, l, LOCK_SET_ADDR_WRITE((stm_word_t)w)) *)
AcquireCas(t) ==
  /\ pc[t] = "acquire_cas"
  /\ LET d == tx[t]
         w == loc[t].w
         l == loc[t].l
         lock == d.w_set[w].lock
     IN \/ /\ ~ATOMIC_CAS_FULL(locks[lock], l)
           /\ pc' = [pc EXCEPT ![t] = "acquire"]
           /\ loc' = [loc EXCEPT ![t].l = 0]
           /\ UNCHANGED <<locks, tx, lastver>>
        \/ /\ ATOMIC_CAS_FULL(locks[lock], l)
           /\ locks' = [locks EXCEPT ![lock] = LOCK_SET_ADDR_WRITE(EntryAddr(t, w))]
           /\ lastver' = [lastver EXCEPT ![lock] = LOCK_GET_TIMESTAMP(locks[lock])]
           /\ tx' = [tx EXCEPT ![t].w_set[w].no_drop = 0,
                               ![t].w_set[w].version = LOCK_GET_TIMESTAMP(l),
                               ![t].nb_acquired = @ + 1]
           /\ loc' = [loc EXCEPT ![t].w = AcquireNext(t, w).w, ![t].l = 0]
           /\ pc' = [pc EXCEPT ![t] = AcquireNext(t, w).pcv]
  /\ UNCHANGED <<clock, mem, quiesce, threads_nb, threads, mutex, woken,
                 scen, txi, ip, regs, chist, att, nabort>>

(* a commit that never looks at its read set again *)
MustValidate_never(d, ts) == FALSE
(* "tx->start != t - 1": a commit has taken a timestamp since tx->start    *)
MustValidate(d, ts) == d.start # ts - 1

(* t = FETCH_INC_CLOCK + 1, then "tx->start != t - 1 && !stm_validate(tx)" *)
CommitTimestamp(t) ==
  /\ pc[t] = "commit_ts"
  /\ LET ts == (clock + 1) % 2^WORD_BITS
         d == tx[t]
     IN /\ clock' = ts
        /\ \/ /\ MustValidate(d, ts)
              /\ Len(d.r_set) > 0
              /\ loc' = [loc EXCEPT ![t].t = ts, ![t].i = 1, ![t].vret = "commit"]
              /\ pc' = [pc EXCEPT ![t] = "validate"]
              /\ UNCHANGED <<snap, wts, clog>>
           \/ /\ ~(MustValidate(d, ts) /\ Len(d.r_set) > 0)
              /\ loc' = [loc EXCEPT ![t].t = ts, ![t].i = 1]
              /\ pc' = [pc EXCEPT ![t] = "publish"]
              /\ DecideAt(t, ts)
  /\ UNCHANGED <<locks, mem, quiesce, threads_nb, threads, mutex, woken,
                 tx, scen, txi, ip, regs, epoch, att, lastver, nabort>>

(* One iteration of the write-back loop: the store to w->addr (none for an  *)
(* empty mask). The lock is dropped by the next access if the entry        *)
(* acquired it.                                                            *)
Publish(t) ==
  /\ pc[t] = "publish"
  /\ LET d == tx[t]
         i == loc[t].i
         e == d.w_set[i]
         a1 == [att EXCEPT ![t].stored = IF e.mask # 0 THEN @ + 1 ELSE @]
     IN /\ mem' = [mem EXCEPT ![e.addr] = WriteBack(@, e)]
        /\ \/ /\ e.no_drop = 0
              /\ pc' = [pc EXCEPT ![t] = "release"]
              /\ att' = a1
              /\ UNCHANGED <<tx, loc, txi, ip, regs>>
           \/ /\ e.no_drop # 0
              /\ i < Len(d.w_set)
              /\ loc' = [loc EXCEPT ![t].i = i + 1]
              /\ att' = a1
              /\ UNCHANGED <<tx, pc, txi, ip, regs>>
           \/ /\ e.no_drop # 0
              /\ i = Len(d.w_set)
              /\ CommitEnd(t, d)
  /\ UNCHANGED <<clock, locks, quiesce, threads_nb, threads, mutex, woken,
                 scen, chist, lastver, nabort>>

(* a release with the version before the commit timestamp *)
ReleasedLock_previous(ts) == LOCK_SET_TIMESTAMP(ts - 1)
(* a release that leaves the owned bit in the word it stores *)
ReleasedLock_owned(ts) == LOCK_SET_TIMESTAMP(ts) + 1
(* The word a commit releases a lock with: "LOCK_SET_TIMESTAMP(t)"         *)
ReleasedLock(ts) == LOCK_SET_TIMESTAMP(ts)

(* ATOMIC_STORE_REL(w->lock, LOCK_SET_TIMESTAMP(t)) *)
Release(t) ==
  /\ pc[t] = "release"
  /\ LET d == tx[t]
         i == loc[t].i
         e == d.w_set[i]
     IN /\ locks' = [locks EXCEPT ![e.lock] = ReleasedLock(loc[t].t)]
        /\ \/ /\ i < Len(d.w_set)
              /\ loc' = [loc EXCEPT ![t].i = i + 1]
              /\ pc' = [pc EXCEPT ![t] = "publish"]
              /\ UNCHANGED <<tx, txi, ip, regs, att>>
           \/ /\ i = Len(d.w_set)
              /\ CommitEnd(t, d)
  /\ UNCHANGED <<clock, mem, quiesce, threads_nb, threads, mutex, woken,
                 scen, chist, lastver, nabort>>

(* ---------------------- stm_abort, stm_set_extension ------------------- *)
stm_abort(t) ==
  /\ pc[t] = "run"
  /\ CurOp(t).op = "abort"
  /\ Abort(t, tx[t], "EXPLICIT")
  /\ UNCHANGED <<shared, scen, txi, ip, regs, chist, att, lastver>>

stm_set_extension(t) ==
  /\ pc[t] = "run"
  /\ CurOp(t).op = "setext"
  /\ LET o == CurOp(t)
         d == [tx[t] EXCEPT !.can_extend = o.val]
     IN tx' = [tx EXCEPT ![t] = IF o.reg # 0 /\ o.mask < d.end
                                THEN [d EXCEPT !.end = o.mask] ELSE d]
  /\ ip' = [ip EXCEPT ![t] = @ + 1]
  /\ UNCHANGED <<shared, loc, pc, scen, txi, regs, hist>>

(* --------------------------- stm_quiesce_barrier ----------------------- *)
Waiting == {u \in Threads : pc[u] = "bar_wait"}

(* pthread_mutex_lock; threads_nb--; "We are first on the barrier"         *)
BarrierEnter(t) ==
  /\ pc[t] = "bar_enter"
  /\ mutex = 0
  /\ mutex' = t
  /\ threads_nb' = threads_nb - 1
  /\ quiesce' = IF quiesce = 0 THEN 1 ELSE quiesce
  /\ pc' = [pc EXCEPT ![t] = "bar_loop"]
  /\ UNCHANGED <<clock, locks, mem, threads, woken, tx, loc, scen, txi, ip, regs, hist>>

(* a reset that forgets the lock array *)
rollover_clock_clock_only ==
  /\ clock' = 0
  /\ locks' = locks

(* rollover_clock, called by the thread that finds everybody blocked       *)
rollover_clock ==
  /\ clock' = 0
  /\ locks' = [k \in Locks |-> 0]

(* a barrier whose first thread does not wait for the others *)
AllBlocked_always == TRUE
(* "if (threads_nb == 0)" *)
AllBlocked == threads_nb = 0

(* a release of the barrier that wakes nobody *)
Broadcast_nobody(w) == w
(* pthread_cond_broadcast(&quiesce_cond): every waiter is woken            *)
Broadcast(w) == w \cup Waiting

BarrierReset(t) ==
  /\ pc[t] = "bar_loop"
  /\ mutex = t
  /\ quiesce # 0
  /\ AllBlocked
  /\ rollover_clock
  /\ quiesce' = 0
  /\ woken' = Broadcast(woken)
  /\ snap' = [v \in 0..MaxClock |-> mem]
  /\ wts' = {}
  /\ epoch' = epoch + 1
  /\ lastver' = [k \in Locks |-> 0]
  /\ UNCHANGED <<mem, threads_nb, threads, mutex, tx, loc, pc, scen, txi, ip, regs,
                 clog, att, nabort>>

(* pthread_cond_wait: the mutex is released while waiting *)
BarrierWait(t) ==
  /\ pc[t] = "bar_loop"
  /\ mutex = t
  /\ quiesce # 0
  /\ ~AllBlocked
  /\ mutex' = 0
  /\ pc' = [pc EXCEPT ![t] = "bar_wait"]
  /\ UNCHANGED <<clock, locks, mem, quiesce, threads_nb, threads, woken,
                 tx, loc, scen, txi, ip, regs, hist>>

(* a signalled waiter takes the mutex again and tests "while (quiesce)"    *)
BarrierWake(t) ==
  /\ pc[t] = "bar_wait"
  /\ t \in woken
  /\ mutex = 0
  /\ mutex' = t
  /\ woken' = woken \ {t}
  /\ pc' = [pc EXCEPT ![t] = "bar_loop"]
  /\ UNCHANGED <<clock, locks, mem, quiesce, threads_nb, threads,
                 tx, loc, scen, txi, ip, regs, hist>>

(* quiesce = 0: threads_nb++; pthread_mutex_unlock; back to "start:"       *)
BarrierLeave(t) ==
  /\ pc[t] = "bar_loop"
  /\ mutex = t
  /\ quiesce = 0
  /\ threads_nb' = threads_nb + 1
  /\ mutex' = 0
  /\ pc' = [pc EXCEPT ![t] = "prepare"]
  /\ UNCHANGED <<clock, locks, mem, quiesce, threads, woken,
                 tx, loc, scen, txi, ip, regs, hist>>

(* ------------------- stm_exit_thread (stm_quiesce_exit_thread) --------- *)
(* A thread that has run its program leaves the registry; if a barrier is  *)
(* up it signals one waiter.                                               *)
stm_exit_thread(t) ==
  /\ pc[t] = "idle"
  /\ txi[t] > Len(Prog(t))
  /\ mutex = 0
  /\ threads' = threads \ {t}
  /\ threads_nb' = threads_nb - 1
  /\ \/ /\ quiesce # 0
        /\ Waiting # {}
        /\ \E u \in Waiting : woken' = woken \cup {u}
     \/ /\ ~(quiesce # 0 /\ Waiting # {})
        /\ UNCHANGED woken
  /\ pc' = [pc EXCEPT ![t] = "done"]
  /\ UNCHANGED <<clock, locks, mem, quiesce, mutex, tx, loc, scen, txi, ip, regs, hist>>

(* ------------------------------ specification -------------------------- *)
Step(t) ==
  \/ StartTop(t) \/ StartNested(t) \/ PrepareAgain(t)
  \/ Load(t) \/ ReadLock(t) \/ ReadValue(t) \/ ReadLock2(t) \/ Extend(t)
  \/ Validate(t) \/ ReadRecheck(t)
  \/ stm_write(t)
  \/ Commit(t) \/ AcquireLoad(t) \/ AcquireCas(t) \/ CommitTimestamp(t)
  \/ Publish(t) \/ Release(t)
  \/ RollbackRelease(t) \/ RollbackReturn(t) \/ RollbackRetry(t)
  \/ stm_abort(t) \/ stm_set_extension(t)
  \/ BarrierEnter(t) \/ BarrierReset(t) \/ BarrierWait(t) \/ BarrierWake(t)
  \/ BarrierLeave(t)
  \/ stm_exit_thread(t)

Next == \E t \in Threads : Step(t)

Spec == Init /\ [][Next]_vars

(* ------------------------------ properties ----------------------------- *)
Done == \A t \in Threads : pc[t] = "done"

Bit(x, b) == (x \div 2^b) % 2

(* The word whose bits come from new where mask has a one, else from old.  *)
RECURSIVE MixFrom(_, _, _, _)
MixFrom(old, new, mask, b) ==
  IF b = WORD_BITS THEN 0
  ELSE 2^b * (IF Bit(mask, b) = 1 THEN Bit(new, b) ELSE Bit(old, b))
       + MixFrom(old, new, mask, b + 1)
MixBits(old, new, mask) == MixFrom(old, new, mask, 0)

(* A transaction run alone: it works on a private copy m of the memory m0, *)
(* which replaces the memory at the outermost commit and is dropped by an  *)
(* abort.                                                                  *)
RECURSIVE SerialRun(_, _, _, _, _, _)
SerialRun(body, i, m0, m, rg, nest) ==
  LET o == body[i] IN
  CASE o.op = "load" ->
         SerialRun(body, i + 1, m0, m, [rg EXCEPT ![o.reg] = m[o.addr]], nest)
    [] o.op = "store" ->
         LET v == IF o.reg = 0 THEN o.val ELSE (rg[o.reg] + o.val) % 2^WORD_BITS
         IN SerialRun(body, i + 1, m0,
                      [m EXCEPT ![o.addr] = MixBits(@, v, o.mask)], rg, nest)
    [] o.op = "begin" -> SerialRun(body, i + 1, m0, m, rg, nest + 1)
    [] o.op = "commit" ->
         IF nest > 1 THEN SerialRun(body, i + 1, m0, m, rg, nest - 1) ELSE m
    [] o.op = "abort" -> m0
    [] OTHER -> SerialRun(body, i + 1, m0, m, rg, nest)

SerialTx(m, T) == SerialRun(T.body, 1, m, m, <<0, 0>>, 1)

RECURSIVE SerialReplay(_, _)
SerialReplay(m, log) ==
  IF log = << >> THEN m
  ELSE SerialReplay(SerialTx(m, ProgOf(scen, Head(log).th)[Head(log).txi]), Tail(log))

Publishing == {t \in Threads : pc[t] \in {"publish", "release"}}

(* C1. Serializability: whenever no commit is in the middle of its          *)
(* write-back, and so in particular once all threads have finished, the    *)
(* shared memory is the memory obtained by running the committed writing   *)
(* transactions alone, one after another, in the order of their commit     *)
(* timestamps, from the initial memory.                                    *)
C1_Serializable ==
  Publishing = {} => mem = SerialReplay(scen.mem0, clog)

C1_Witness ==
  /\ Done
  /\ scen.name = "skew"
  /\ Len(clog) = 3
  /\ clog[1].th = 2
  /\ nabort >= 1

(* The values the attempt of t has loaded are those of the committed       *)
(* memory at the clock value v.                                            *)
SeenAt(t, v) ==
  \A i \in 1..Len(att[t].rlog) : snap[v][att[t].rlog[i].addr] = att[t].rlog[i].val

(* C2 as stated. Opacity with the bound tx.end: the values an attempt has  *)
(* loaded so far (for words it did not write) are those of one committed   *)
(* memory state, at some clock value v <= tx.end.                          *)
C2_OpacityUpToEnd ==
  \A t \in Threads : \E v \in 0..MaxClock : v <= tx[t].end /\ SeenAt(t, v)

(* C2, amended. Opacity: the values an attempt has loaded so far (for      *)
(* words it did not write) are those of one committed memory state, at     *)
(* some clock value v not above the largest value tx.end has had in the    *)
(* attempt (tx.end itself unless stm_set_extension has lowered it).        *)
C2_Opacity ==
  \A t \in Threads : \E v \in 0..MaxClock : v <= att[t].hiend /\ SeenAt(t, v)

C2_Witness ==
  \E t \in Threads :
    /\ scen.name = "snap_upd"
    /\ pc[t] = "run"
    /\ Len(att[t].rlog) = 2
    /\ att[t].rlog[1].val = 1
    /\ att[t].rlog[2].val = 1
    /\ tx[t].end > tx[t].start
    /\ ~SeenAt(t, tx[t].start)

(* The thread whose write set the owner pointer of l designates            *)
OwnersOf(l) ==
  {t \in Threads :
     \E i \in 1..Len(tx[t].w_set) : LOCK_GET_ADDR(l) = EntryAddr(t, i)}

LockHeldRight(k) ==
  LET l == locks[k] IN
  LOCK_GET_OWNED(l) # 0 =>
    /\ Cardinality(OwnersOf(l)) = 1
    /\ \A t \in OwnersOf(l) :
         LET i == EntryIndex(t, LOCK_GET_ADDR(l)) IN
           /\ i \in 1..Len(tx[t].w_set)
           /\ tx[t].w_set[i].lock = k

AcquiredByCas(k) ==
  (LOCK_GET_OWNED(locks[k]) = 0 /\ LOCK_GET_OWNED(locks'[k]) # 0) =>
    \E t \in Threads :
      /\ pc[t] = "acquire_cas"
      /\ loc[t].l = locks[k]
      /\ tx[t].w_set[loc[t].w].lock = k
      /\ locks'[k] = LOCK_SET_ADDR_WRITE(EntryAddr(t, loc[t].w))

(* C3. Lock discipline: a lock word is unowned or owned by exactly one     *)
(* transaction, its owner pointer designating an entry of the current      *)
(* write set of that transaction whose recorded lock is this lock; and a   *)
(* lock goes from unowned to owned only by the compare-and-swap of the     *)
(* acquiring transaction, which finds the word it had loaded.              *)
C3_LockDiscipline ==
  /\ [](\A k \in Locks : LockHeldRight(k))
  /\ [][\A k \in Locks : AcquiredByCas(k)]_vars

C3_Witness ==
  /\ scen.name = "skew"
  /\ \A k \in Locks : LOCK_GET_OWNED(locks[k]) # 0
  /\ OwnersOf(locks[0]) # OwnersOf(locks[1])

(* The number of transactions of the programs of the threads 1..n         *)
RECURSIVE SumLen(_)
SumLen(n) == IF n = 0 THEN 0 ELSE Len(Prog(n)) + SumLen(n - 1)

(* C4. No lost update: when the threads run increments of one word, once   *)
(* all have finished the word is its initial value plus the number of      *)
(* committed increments, each transaction of the programs having           *)
(* committed once, whatever the number of aborted attempts.                *)
C4_NoLostUpdate ==
  (scen.name = "counter" /\ Done) =>
    /\ Len(clog) = SumLen(NThreads)
    /\ mem[0] = (scen.mem0[0] + Len(clog)) % 2^WORD_BITS

C4_Witness ==
  /\ scen.name = "counter"
  /\ Done
  /\ nabort = MaxAborts
  /\ mem[0] = 4

SnapPair == IF scen.name = "snap_same" THEN 8 ELSE 32

(* C5. Read-only snapshot: against a writer that increments x and y        *)
(* together, a read-only attempt that has loaded x then y and stands at    *)
(* its commit has seen x = y, whether x and y share a lock or not.         *)
C5_ReadOnlySnapshot ==
  \A t \in Threads :
    (/\ scen.name \in {"snap_same", "snap_diff"}
     /\ pc[t] = "run"
     /\ CurTx(t) = Read2(0, SnapPair)
     /\ CurOp(t).op = "commit") => regs[t][1] = regs[t][2]

C5_Witness ==
  \E t \in Threads :
    /\ scen.name = "snap_diff"
    /\ pc[t] = "run"
    /\ CurTx(t) = Read2(0, SnapPair)
    /\ CurOp(t).op = "commit"
    /\ regs[t] = <<1, 1>>
    /\ nabort >= 1

LocksOf(ws) == {ws[j].lock : j \in 1..Len(ws)}

HoldsFrom(t, i) ==
  \A j \in i..Len(tx[t].w_set) :
    LET l == locks[tx[t].w_set[j].lock] IN
      LOCK_GET_OWNED(l) # 0 /\ OwnersOf(l) = {t}

Decided(t) ==
  \E n \in 1..Len(clog) :
    clog[n] = [stamp |-> Stamp(loc[t].t), th |-> t, txi |-> txi[t]]

StoredByPublish ==
  mem' # mem =>
    \E t \in Threads :
      /\ pc[t] = "publish"
      /\ IS_ACTIVE(tx[t].status)
      /\ \A a \in Addrs : mem'[a] # mem[a] => a = tx[t].w_set[loc[t].i].addr
      /\ tx[t].nb_acquired = Cardinality(LocksOf(tx[t].w_set))
      /\ HoldsFrom(t, loc[t].i)
      /\ Decided(t)

(* C6. An aborted attempt writes nothing: a shared word changes only in    *)
(* the write-back of a commit, by an attempt that has acquired the locks   *)
(* of its whole write set, still holds those of the entries it has yet to  *)
(* write, and is past its revalidation; an attempt that has written a      *)
(* word never rolls back, and one that rolls back has written none.        *)
C6_AbortWritesNothing ==
  /\ [][StoredByPublish]_vars
  /\ [](\A t \in Threads :
          /\ pc[t] = "rollback" => att[t].stored = 0
          /\ att[t].stored > 0 => pc[t] \in {"publish", "release"})

C6_Witness ==
  \E t \in Threads :
    /\ scen.name = "skew"
    /\ pc[t] = "rollback"
    /\ loc[t].reason = "VALIDATE"
    /\ tx[t].nb_acquired = 0
    /\ Len(tx[t].w_set) = 1
    /\ mem # scen.mem0

(* The word a load must return: bit by bit, the bit of the last store of    *)
(* the attempt to the address whose mask covers the bit, else the bit of   *)
(* the memory word raw.                                                    *)
LastCover(sl, a, b) ==
  LET js == {j \in 1..Len(sl) : sl[j].addr = a /\ Bit(sl[j].mask, b) = 1} IN
  IF js = {} THEN 0 ELSE CHOOSE j \in js : \A n \in js : n <= j

RECURSIVE OverlayFrom(_, _, _, _)
OverlayFrom(sl, a, raw, b) ==
  IF b = WORD_BITS THEN 0
  ELSE 2^b * (IF LastCover(sl, a, b) = 0 THEN Bit(raw, b)
              ELSE Bit(sl[LastCover(sl, a, b)].value, b))
       + OverlayFrom(sl, a, raw, b + 1)

LoadReturns(t) ==
  /\ pc[t] \in {"run", "rd_lock2", "rd_recheck"}
  /\ CurOp(t).op = "load"
  /\ ip'[t] = ip[t] + 1

ReadsOwnWrites(t) ==
  LoadReturns(t) =>
    /\ regs'[t][CurOp(t).reg] =
         OverlayFrom(att[t].slog, CurOp(t).addr, loc[t].value, 0)
    /\ pc[t] # "run" =>
         /\ loc[t].l = locks[GET_LOCK(CurOp(t).addr)]
         /\ LOCK_GET_OWNED(loc[t].l) = 0
         /\ LOCK_GET_TIMESTAMP(loc[t].l) <= tx'[t].end

(* C7. Read-your-own-writes: a load returns, on every bit covered by a     *)
(* store of the attempt to that address, the bit of the most recent store  *)
(* covering it, and on every other bit the bit of the memory word, which   *)
(* was read under an unowned lock whose version is within the snapshot;    *)
(* after a full-mask store it is the stored value.                         *)
C7_ReadYourOwnWrites == [][\A t \in Threads : ReadsOwnWrites(t)]_vars

C7_Witness ==
  /\ scen.name = "masks"
  /\ pc[1] = "run"
  /\ ip[1] = 5
  /\ regs[1] = <<5, 7>>

(* C8. Visibility of commits: an attempt whose snapshot starts at or after *)
(* the timestamp of a decided commit that wrote an address has not loaded  *)
(* from that address the value it had before that commit: what it loaded   *)
(* is the value of the address at that timestamp or at a later one.        *)
C8_Visibility ==
  \A t \in Threads : \A i \in 1..Len(att[t].rlog) : \A w \in wts :
    (w.addr = att[t].rlog[i].addr /\ w.ts <= tx[t].start) =>
      \E v \in w.ts..MaxClock : snap[v][w.addr] = att[t].rlog[i].val

C8_Witness ==
  \E t \in Threads : \E w \in wts :
    /\ scen.name = "counter"
    /\ Publishing # {}
    /\ Len(att[t].rlog) = 1
    /\ w.addr = att[t].rlog[1].addr
    /\ w.ts = tx[t].start
    /\ w.ts = 2
    /\ att[t].rlog[1].val = 2

InBarrier(u) == pc[u] \in {"bar_loop", "bar_wait"}

ClockStep ==
  \/ clock' >= clock
  \/ /\ clock' = 0
     /\ \A u \in threads : InBarrier(u)
     /\ \A u \in Threads : ~IS_ACTIVE(tx[u].status)
     /\ \A k \in Locks : LOCK_GET_OWNED(locks[k]) = 0

(* C9. Clock monotonicity: the clock never decreases from a state to the   *)
(* next, except when the rollover barrier resets it to 0; in the state     *)
(* where it does, every registered thread is inside the barrier, no        *)
(* descriptor is ACTIVE and no lock word is owned.                         *)
C9_ClockMonotonic == [][ClockStep]_vars

C9_Witness ==
  /\ epoch = 1
  /\ clock = 1
  /\ Cardinality(threads) = NThreads
  /\ \E u \in Threads : InBarrier(u)

VersionStep(k) ==
  LET v1 == lastver[k]
      v2 == LOCK_GET_TIMESTAMP(locks'[k])
  IN (epoch' = epoch /\ LOCK_GET_OWNED(locks'[k]) = 0) =>
       IF LOCK_GET_OWNED(locks[k]) = 0 THEN locks'[k] = locks[k]
       ELSE \E t \in OwnersOf(locks[k]) :
              \/ pc[t] = "release" /\ pc'[t] # "rollback" /\ v2 > v1
              \/ pc[t] = "rollback" /\ v2 = v1

(* C10. Version monotonicity: between two rollovers, the version a lock    *)
(* carries when it is released is at least the version it carried when it  *)
(* was acquired: greater when the owner releases it in its commit, the     *)
(* same when the owner releases it in its rollback; and the version of an  *)
(* unowned lock does not change otherwise.                                 *)
C10_VersionMonotonic == [][\A k \in Locks : VersionStep(k)]_vars

C10_Witness ==
  \E t \in Threads :
    /\ pc[t] = "rollback"
    /\ loc[t].reason = "VALIDATE"
    /\ tx[t].nb_acquired = 0
    /\ \E k \in LocksOf(tx[t].w_set) :
         /\ LOCK_GET_OWNED(locks[k]) = 0
         /\ LOCK_GET_TIMESTAMP(locks[k]) = 1
         /\ lastver[k] = 1

(* The commit that brings the nesting depth of t to 0 is stepping.         *)
TopCommit(t) ==
  /\ pc[t] = "run"
  /\ CurOp(t).op = "commit"
  /\ tx[t].nesting = 1
  /\ tx'[t] # tx[t]

InCommit(t) ==
  \/ pc[t] \in {"acquire", "acquire_cas", "commit_ts", "publish", "release"}
  \/ pc[t] = "validate" /\ loc[t].vret = "commit"

EmptyCommit(t) ==
  (TopCommit(t) /\ Len(tx[t].w_set) = 0) =>
    /\ tx'[t] = [tx[t] EXCEPT !.status = TX_COMMITTED, !.nesting = 0]
    /\ pc'[t] = "idle"
    /\ txi'[t] = txi[t] + 1
    /\ clock' = clock
    /\ locks' = locks
    /\ mem' = mem

(* C11. A top-level commit of a transaction with an empty write set        *)
(* returns in one step with the status COMMITTED, the rest of the          *)
(* descriptor, the clock, every lock word and every memory word being left *)
(* as they were; the lock acquisition, the timestamp, the revalidation and *)
(* the write-back are only ever run with a write set that is not empty.    *)
C11_EmptyCommit ==
  /\ [][\A t \in Threads : EmptyCommit(t)]_vars
  /\ [](\A t \in Threads : InCommit(t) => Len(tx[t].w_set) > 0)

C11_Witness ==
  /\ scen.name = "masks"
  /\ txi[2] = 3
  /\ tx[2].status = TX_COMMITTED
  /\ tx[2].ro = 0
  /\ Len(tx[2].r_set) = 2
  /\ tx[2].r_set[1].version > tx[2].start
  /\ tx[2].w_set = << >>

(* A transaction begun with the read_only attribute is running in t.       *)
ReadOnlyActive(t) == tx[t].ro = 1 /\ IS_ACTIVE(tx[t].status)

(* The transaction of t was begun with read_only: from its stm_start until *)
(* it commits or returns aborted, the rollover barrier of its stm_prepare  *)
(* included.                                                               *)
ReadOnlyBegun(t) == tx[t].ro = 1 /\ pc[t] \notin {"idle", "done"}

(* The step changes the clock and is a step of t.                          *)
ChangesClock(t) ==
  /\ clock' # clock
  /\ pc'[t] # pc[t] \/ (pc[t] = "bar_loop" /\ mutex = t)

PointsInto(t, l) ==
  /\ WsBase(t) <= LOCK_GET_ADDR(l)
  /\ LOCK_GET_ADDR(l) < WsBase(t) + RW_SET_SIZE * 2^OWNED_BITS

ReadOnlyFootprint(t) ==
  ReadOnlyActive(t) =>
    /\ tx[t].r_set = << >>
    /\ tx[t].w_set = << >>
    /\ tx[t].nb_acquired = 0
    /\ ~InCommit(t)
    /\ \A k \in Locks : LOCK_GET_OWNED(locks[k]) # 0 => ~PointsInto(t, locks[k])

(* C12 as stated. A transaction begun with read_only keeps an empty read   *)
(* set, owns no lock, and no step of it changes the clock.                 *)
C12_ReadOnlyNeverChangesClock ==
  /\ [](\A t \in Threads : ReadOnlyFootprint(t))
  /\ [][\A t \in Threads : ReadOnlyBegun(t) => ~ChangesClock(t)]_vars

(* C12, amended. A transaction begun with read_only keeps an empty read    *)
(* set and an empty write set, owns no lock and never reaches the lock     *)
(* acquisition or the timestamp of commit, so it never increments the      *)
(* clock; the one change to the clock a step of it makes is the rollover   *)
(* reset to 0, run by its stm_prepare (at begin or before a retry) when    *)
(* the clock has reached VERSION_MAX and it is the last to reach the       *)
(* barrier.                                                                *)
C12_ReadOnly ==
  /\ [](\A t \in Threads : ReadOnlyFootprint(t))
  /\ [][\A t \in Threads :
          (ReadOnlyBegun(t) /\ ChangesClock(t)) =>
            /\ pc[t] = "bar_loop"
            /\ ~IS_ACTIVE(tx[t].status)
            /\ clock >= VERSION_MAX
            /\ clock' = 0]_vars

C12_Witness ==
  /\ scen.name = "ro"
  /\ epoch = 1
  /\ clock = 0
  /\ pc[2] = "bar_loop"
  /\ mutex = 2
  /\ quiesce = 0
  /\ tx[2].ro = 1
  /\ tx[2].status = TX_ABORTED
  /\ mem[0] = 1

(* The barrier is released in this step: quiesce goes back to 0.           *)
BarrierReleased == quiesce # 0 /\ quiesce' = 0

ResetOnce ==
  (BarrierReleased \/ clock' < clock) =>
    /\ BarrierReleased
    /\ clock >= VERSION_MAX
    /\ clock' = 0
    /\ \A k \in Locks : locks'[k] = 0
    /\ epoch' = epoch + 1
    /\ \E t \in Threads : pc[t] = "bar_loop" /\ mutex = t /\ pc'[t] = "bar_loop"

(* The attempt of t becomes ACTIVE in this step (stm_prepare has passed    *)
(* its test of the clock).                                                 *)
Begins(t) == ~IS_ACTIVE(tx[t].status) /\ IS_ACTIVE(tx'[t].status)

SnapshotFromClock(t) ==
  Begins(t) =>
    /\ tx'[t].start = clock
    /\ tx'[t].end = clock
    /\ clock < VERSION_MAX

Returned(t) == pc'[t] = "idle" /\ txi'[t] = txi[t] + 1

(* The long jump to the begin context: the thread is again at the first    *)
(* operation of the same transaction, with a fresh attempt (or in front of *)
(* the rollover barrier that stm_prepare found).                           *)
Restarted(t) ==
  /\ txi'[t] = txi[t]
  /\ tx'[t].nesting = 1
  /\ \/ /\ pc'[t] = "run"
        /\ ip'[t] = 1
        /\ IS_ACTIVE(tx'[t].status)
        /\ tx'[t].r_set = << >>
        /\ tx'[t].w_set = << >>
     \/ /\ pc'[t] = "bar_enter"
        /\ tx'[t].status = TX_ABORTED

(* stm_rollback, entered for the given reasons, comes to its end.          *)
RollbackEnds(t, reasons) ==
  /\ pc[t] = "rollback"
  /\ loc[t].reason \in reasons
  /\ pc'[t] # "rollback"

CommitReasons == {"WW_CONFLICT", "VALIDATE"}

Masked(ws) == Cardinality({i \in 1..Len(ws) : ws[i].mask # 0})

(* The top-level commit of t returns without having rolled back.           *)
CommitReturnsTrue(t) ==
  /\ TopCommit(t) \/ (pc[t] \in {"publish", "release"} /\ pc'[t] \notin {"publish", "release"})
  /\ pc'[t] # "acquire"

CommitResult(t) ==
  /\ CommitReturnsTrue(t) =>
        /\ Returned(t)
        /\ tx'[t].status = TX_COMMITTED
        /\ att[t].stored + (IF pc[t] = "publish" /\ tx[t].w_set[loc[t].i].mask # 0
                            THEN 1 ELSE 0) = Masked(tx[t].w_set)
  /\ (Returned(t) /\ tx'[t].status = TX_COMMITTED) => CommitReturnsTrue(t)
  /\ ((pc[t] = "acquire" \/ (pc[t] = "validate" /\ loc[t].vret = "commit"))
       /\ pc'[t] = "rollback") => loc'[t].reason \in CommitReasons

(* C14 as stated. A top-level commit returns true exactly when the         *)
(* transaction ended COMMITTED with its writes published, and a commit     *)
(* that fails with WW_CONFLICT or VALIDATE does not return to its caller:  *)
(* after the rollback the thread is back at the begin context.             *)
C14_FailedCommitNeverReturns ==
  [][\A t \in Threads :
       /\ CommitResult(t)
       /\ RollbackEnds(t, CommitReasons) => Restarted(t)]_vars

(* C14, amended. A top-level commit returns true exactly when the          *)
(* transaction ended COMMITTED with its writes published; a commit that    *)
(* fails with WW_CONFLICT or VALIDATE rolls back and then jumps to the     *)
(* begin context, unless the transaction was begun with no_retry: then     *)
(* the rollback returns and commit returns to its caller (with 0), the     *)
(* descriptor being ABORTED at depth 0 and not prepared again.             *)
C14_CommitResult ==
  [][\A t \in Threads :
       /\ CommitResult(t)
       /\ RollbackEnds(t, CommitReasons) =>
            IF tx[t].attr.no_retry = 1
            THEN /\ Returned(t)
                 /\ tx'[t] = [tx[t] EXCEPT !.status = TX_ABORTED, !.nesting = 0]
            ELSE Restarted(t)]_vars

C14_Witness ==
  /\ scen.name = "api"
  /\ pc[2] = "idle"
  /\ txi[2] = 2
  /\ tx[2].status = TX_ABORTED
  /\ tx[2].attr.no_retry = 1
  /\ Len(tx[2].w_set) = 1
  /\ Len(tx[2].r_set) = 1
  /\ mem[32] = 7

(* stm_abort is called by t in this step.                                  *)
AbortCalled(t) ==
  /\ pc[t] = "run"
  /\ CurOp(t).op = "abort"
  /\ pc'[t] # pc[t]

AbortRollsBack(t) ==
  AbortCalled(t) =>
    /\ IS_ACTIVE(tx[t].status)
    /\ pc'[t] = "rollback"
    /\ loc'[t].reason = "EXPLICIT"
    /\ tx'[t] = tx[t]

(* C15 as stated. abort called in an active transaction rolls it back      *)
(* and, unless the transaction was begun with no_retry, does not return:   *)
(* the rollback ends with the jump to the begin context and the body is    *)
(* entered again.                                                          *)
C15_AbortRestarts ==
  [][\A t \in Threads :
       /\ AbortRollsBack(t)
       /\ RollbackEnds(t, {"EXPLICIT"}) =>
            IF tx[t].attr.no_retry = 1 THEN Returned(t) ELSE Restarted(t)]_vars

(* C15, amended. abort called in an active transaction enters the          *)
(* rollback with the EXPLICIT reason, and that rollback always ends by     *)
(* returning to the caller of abort, with or without no_retry: the thread  *)
(* goes on after the call and the body is not entered again.               *)
C15_AbortReturns ==
  [][\A t \in Threads :
       /\ AbortRollsBack(t)
       /\ RollbackEnds(t, {"EXPLICIT"}) => (Returned(t) /\ ~Restarted(t))]_vars

C15_Witness ==
  /\ scen.name = "api"
  /\ pc[1] = "rollback"
  /\ loc[1].reason = "EXPLICIT"
  /\ tx[1].attr.no_retry = 0
  /\ tx[1].nesting = 2
  /\ txi[1] = 2

(* The explicit abort of t that followed a store returns in this step.     *)
StoredThenAborted(t) ==
  /\ RollbackEnds(t, {"EXPLICIT"})
  /\ Len(att[t].slog) > 0

ExplicitAbortFrame(t) ==
  StoredThenAborted(t) =>
    /\ Returned(t)
    /\ tx'[t].status = TX_ABORTED
    /\ tx'[t].nesting = 0
    /\ tx'[t].start = tx[t].start
    /\ tx'[t].end = tx[t].end
    /\ tx'[t].r_set = tx[t].r_set
    /\ tx'[t].w_set = tx[t].w_set
    /\ att[t].stored = 0
    /\ clock' = clock
    /\ locks' = locks
    /\ mem' = mem
    /\ \A k \in Locks : LOCK_GET_OWNED(locks'[k]) # 0 => ~PointsInto(t, locks'[k])

(* C16. Explicit abort after a store: the rollback returns to the caller   *)
(* with the descriptor ABORTED at depth 0, its snapshot and its sets left  *)
(* as the attempt had them (it is not prepared again), no lock owned by    *)
(* it, and nothing written to memory by the attempt. In the api scenario,  *)
(* where thread 1 stores 9 to address 0 and aborts, and is the only        *)
(* writer of that address, the word holds after the abort the value 1 it   *)
(* had at the begin.                                                       *)
C16_ExplicitAbort ==
  /\ [][\A t \in Threads : ExplicitAbortFrame(t)]_vars
  /\ []((scen.name = "api" /\ txi[1] >= 2) => mem[0] = 1)
  /\ []((scen.name = "api" /\ txi[1] = 3) =>
          (tx[1].status = TX_ABORTED /\ tx[1].nesting = 0 /\ pc[1] \in {"idle", "done"}))

C16_Witness ==
  /\ scen.name = "api"
  /\ txi[1] = 3
  /\ pc[1] = "idle"
  /\ tx[1].status = TX_ABORTED
  /\ tx[1].nesting = 0
  /\ Len(tx[1].w_set) = 1
  /\ tx[1].w_set[1].value = 9
  /\ mem[0] = 1

SharedKept == clock' = clock /\ locks' = locks /\ mem' = mem

NestedBegin(t) ==
  (pc[t] = "run" /\ CurOp(t).op = "begin" /\ tx'[t] # tx[t]) =>
    /\ tx'[t] = [tx[t] EXCEPT !.nesting = @ + 1]
    /\ pc'[t] = "run"
    /\ ip'[t] = ip[t] + 1
    /\ att'[t] = att[t]
    /\ SharedKept

NestedCommit(t) ==
  (pc[t] = "run" /\ CurOp(t).op = "commit" /\ tx[t].nesting > 1 /\ tx'[t] # tx[t]) =>
    /\ tx'[t] = [tx[t] EXCEPT !.nesting = @ - 1]
    /\ IS_ACTIVE(tx'[t].status)
    /\ pc'[t] = "run"
    /\ ip'[t] = ip[t] + 1
    /\ att'[t] = att[t]
    /\ SharedKept

(* Every store the attempt has asked for is in the write set.              *)
AllLevelsBuffered(t) ==
  \A j \in 1..Len(att[t].slog) : stm_has_written(tx[t], att[t].slog[j].addr) # 0

PublishedAtDepth0 ==
  /\ mem' # mem => \E t \in Threads : pc[t] = "publish" /\ tx[t].nesting = 0
  /\ \A t \in Threads : (TopCommit(t) /\ pc'[t] = "acquire") => AllLevelsBuffered(t)

(* C17. Flat nesting: a begin inside an open transaction changes the depth *)
(* counter and nothing else of the descriptor or of the shared state (no   *)
(* new snapshot, the sets and the attributes kept); a commit at depth > 1  *)
(* changes the depth counter and nothing else, the status staying ACTIVE,  *)
(* and the body goes on; memory is only written by the commit that has     *)
(* brought the depth to 0, whose write set holds the stores of all levels; *)
(* an attempt that has not reached that commit has written nothing. In the *)
(* api scenario the word stored at the inner level keeps its initial value *)
(* until the outermost commit of thread 1.                                 *)
C17_FlatNesting ==
  /\ [][(\A t \in Threads : NestedBegin(t) /\ NestedCommit(t)) /\ PublishedAtDepth0]_vars
  /\ [](\A t \in Threads : (pc[t] = "run" /\ tx[t].nesting >= 1) => att[t].stored = 0)
  /\ []((scen.name = "api" /\ txi[1] = 1 /\ ~InCommit(1)) => mem[0] = 0)

C17_Witness ==
  /\ scen.name = "api"
  /\ txi[1] = 1
  /\ pc[1] = "run"
  /\ ip[1] = 5
  /\ tx[1].nesting = 1
  /\ IS_ACTIVE(tx[1].status)
  /\ Len(tx[1].w_set) = 1
  /\ Len(tx[1].r_set) = 1
  /\ mem[0] = 0
  /\ clock > tx[1].start

(* The STM aborts the attempt of t in this step (not the program with      *)
(* abort, and not for a store in a read_only transaction).                 *)
AbortedBySTM(t) ==
  /\ pc[t] # "rollback"
  /\ pc'[t] = "rollback"
  /\ loc'[t].reason \notin {"EXPLICIT", "RO_WRITE"}

HasTimestamp(t) ==
  \/ pc[t] \in {"publish", "release"}
  \/ pc[t] = "validate" /\ loc[t].vret = "commit"

(* Another transaction has taken a commit timestamp since the attempt of   *)
(* t began: the clock has moved by more than the timestamp of t itself.    *)
OthersTicked(t) == clock > tx[t].start + (IF HasTimestamp(t) THEN 1 ELSE 0)

(* A lock is held by a transaction other than that of t.                   *)
OthersHold(t) ==
  \E k \in Locks : LOCK_GET_OWNED(locks[k]) # 0 /\ ~PointsInto(t, locks[k])

(* The attempt has lowered its tx->end with stm_set_extension.             *)
LoweredEnd(t) == att[t].hiend > tx[t].end

PassesRevalidation(t) ==
  /\ pc[t] \in {"commit_ts", "validate"}
  /\ pc'[t] = "publish"

(* The timestamp of the commit of t, in the step that passes revalidation. *)
OwnTimestamp(t) == loc'[t].t

(* The owner of the owned lock word l and the version it captured          *)
OwnerOf(l) == CHOOSE u \in Threads : PointsInto(u, l)
CapturedBy(l) == tx[OwnerOf(l)].w_set[EntryIndex(OwnerOf(l), LOCK_GET_ADDR(l))].version

(* The validation condition, for the read-set entry r of t now             *)
ValidNow(t, r) ==
  LET l == locks[r.lock] IN
  IF LOCK_GET_OWNED(l) = 0 THEN LOCK_GET_TIMESTAMP(l) = r.version
  ELSE PointsInto(t, l) /\ CapturedBy(l) = r.version

(* The entry r of t is untouched by the commits before the timestamp ts:   *)
(* the validation condition, or the lock has since been taken by a         *)
(* transaction that comes after ts (it has no timestamp yet, or a larger   *)
(* one), or released by one with a version above ts.                       *)
ValidBefore(t, r, ts) ==
  LET l == locks[r.lock] IN
  IF LOCK_GET_OWNED(l) = 0
  THEN LOCK_GET_TIMESTAMP(l) = r.version \/ LOCK_GET_TIMESTAMP(l) > ts
  ELSE IF PointsInto(t, l) THEN CapturedBy(l) = r.version
  ELSE /\ CapturedBy(l) = r.version \/ CapturedBy(l) > ts
       /\ HasTimestamp(OwnerOf(l)) => loc[OwnerOf(l)].t > ts

(* C19 as stated. When a writing transaction passes the revalidation of    *)
(* commit, run or skipped, every entry of its read set satisfies the       *)
(* validation condition at that moment.                                    *)
C19_ReadSetValidAtPublish ==
  [][\A t \in Threads :
       PassesRevalidation(t) =>
         \A i \in 1..Len(tx[t].r_set) : ValidNow(t, tx[t].r_set[i])]_vars

(* C19, amended. When a writing transaction with the timestamp ts passes   *)
(* the revalidation of commit, run or skipped, every entry of its read set *)
(* is untouched by the commits before ts: its lock is unowned with the     *)
(* recorded version, or owned by the transaction itself with that captured *)
(* version, or it has been acquired since by a transaction that commits    *)
(* after ts; and the values the attempt has loaded are those of the        *)
(* committed memory at ts - 1.                                             *)
C19_ReadSetValidAtTimestamp ==
  [][\A t \in Threads :
       PassesRevalidation(t) =>
         /\ \A i \in 1..Len(tx[t].r_set) : ValidBefore(t, tx[t].r_set[i], OwnTimestamp(t))
         /\ SeenAt(t, OwnTimestamp(t) - 1)]_vars

C19_Witness ==
  /\ scen.name = "skew"
  /\ pc[1] = "publish"
  /\ att[1].stored = 0
  /\ Len(tx[1].r_set) = 1
  /\ tx[1].start = loc[1].t - 1
  /\ LOCK_GET_OWNED(locks[tx[1].r_set[1].lock]) # 0
  /\ PointsInto(2, locks[tx[1].r_set[1].lock])

(* The load of t returns, in this step, a value it has read from memory.   *)
LoadFromMemoryReturns(t) ==
  /\ pc[t] \in {"rd_lock2", "rd_recheck"}
  /\ ip'[t] = ip[t] + 1

LockValueLock(t) ==
  LoadFromMemoryReturns(t) =>
    LET a == CurOp(t).addr
        v == LOCK_GET_TIMESTAMP(loc[t].l)
    IN /\ LOCK_GET_OWNED(loc[t].l) = 0
       /\ locks[GET_LOCK(a)] = loc[t].l
       /\ loc[t].value = snap[v][a]
       /\ tx[t].ro = 0 =>
            tx'[t].r_set = Append(tx[t].r_set, [lock |-> GET_LOCK(a), version |-> v])

(* Between the two reads of the lock: the value in hand belongs to the     *)
(* version of the first read whenever the lock word is that of the first   *)
(* read.                                                                   *)
ValueOfVersion(t) ==
  (pc[t] = "rd_lock2" /\ locks[OpLock(t)] = loc[t].l) =>
    loc[t].value = snap[LOCK_GET_TIMESTAMP(loc[t].l)][CurOp(t).addr]

(* C20. Lock-value-lock: a load that returns a value read from memory has  *)
(* read the lock word unowned with some version v before and after the     *)
(* value, and the value is the content of the address in the committed     *)
(* memory at the clock value v, that is after the commits with a           *)
(* timestamp up to v and none of the later ones; an update transaction     *)
(* records the stripe with that v. The same holds when a committer has     *)
(* acquired the lock after the first read and its rollback has put the     *)
(* same lock word back before the second.                                  *)
C20_LockValueLock ==
  /\ [][\A t \in Threads : LockValueLock(t)]_vars
  /\ [](\A t \in Threads : ValueOfVersion(t))

C20_Witness ==
  \E t \in Threads : \E u \in Threads \ {t} :
    /\ pc[t] = "rd_lock2"
    /\ LOCK_GET_OWNED(loc[t].l) = 0
    /\ LOCK_GET_OWNED(locks[OpLock(t)]) # 0
    /\ PointsInto(u, locks[OpLock(t)])
    /\ pc[u] = "rollback"
    /\ CapturedBy(locks[OpLock(t)]) = LOCK_GET_TIMESTAMP(loc[t].l)
    /\ mem # scen.mem0

(* stm_validate examines the entry loc[t].i of t in this step.             *)
ValidateSteps(t) ==
  /\ pc[t] = "validate"
  /\ <<pc[t], loc[t], tx[t]>>' # <<pc[t], loc[t], tx[t]>>

ValidateFrame(t) ==
  ValidateSteps(t) =>
    LET i == loc[t].i
        ok == ValidNow(t, tx[t].r_set[i])
    IN /\ i \in 1..Len(tx[t].r_set)
       /\ clock' = clock /\ locks' = locks /\ mem' = mem
       /\ tx'[t].r_set = tx[t].r_set
       /\ tx'[t].w_set = tx[t].w_set
       /\ tx'[t].status = tx[t].status
       /\ tx'[t].start = tx[t].start
       /\ ~ok <=> pc'[t] = "rollback"
       /\ (ok /\ i < Len(tx[t].r_set)) <=> (pc'[t] = "validate" /\ loc'[t].i = i + 1)
       /\ (ok /\ i = Len(tx[t].r_set)) <=> pc'[t] \in {"rd_recheck", "publish"}
       /\ pc'[t] # "rd_recheck" => tx'[t] = tx[t]

(* C21. stm_validate goes through the read set from its first entry: it    *)
(* fails at the first entry whose lock, as read then, is owned by another  *)
(* transaction, or is owned by the validating transaction with a captured  *)
(* version other than the recorded one, or is unowned with another         *)
(* version; it goes on to the next entry otherwise and succeeds after the  *)
(* last one. It changes neither the shared state nor the sets, the status  *)
(* or the start of the descriptor (tx.end is set by stm_extend after a     *)
(* success).                                                               *)
C21_Validate == [][\A t \in Threads : ValidateFrame(t)]_vars

C21_Witness ==
  \E t \in Threads :
    /\ pc[t] = "publish"
    /\ loc[t].vret = "commit"
    /\ att[t].stored = 0
    /\ \E i \in 1..Len(tx[t].r_set) :
         /\ LOCK_GET_OWNED(locks[tx[t].r_set[i].lock]) # 0
         /\ PointsInto(t, locks[tx[t].r_set[i].lock])
    /\ tx[t].start < loc[t].t - 1

OwnsALock(t) ==
  \E k \in Locks : LOCK_GET_OWNED(locks[k]) # 0 /\ PointsInto(t, locks[k])

(* t is inside a load or a store, or between two operations of its body.   *)
InLoadOrStore(t) ==
  \/ pc[t] \in {"run", "rd_lock", "rd_value", "rd_lock2", "extend", "rd_recheck"}
  \/ pc[t] = "validate" /\ loc[t].vret = "read"

(* t spins: its load, or its store, finds the lock owned, by u.            *)
SpinsOn(t, u) ==
  /\ \/ pc[t] = "rd_lock"
     \/ pc[t] = "run" /\ CurOp(t).op = "store" /\ tx[t].ro = 0
  /\ LOCK_GET_OWNED(locks[OpLock(t)]) # 0
  /\ PointsInto(u, locks[OpLock(t)])

(* What the acquire loop does with the lock word it loads                   *)
AcquireNeverWaits(t) ==
  (pc[t] = "acquire" /\ <<pc[t], loc[t]>>' # <<pc[t], loc[t]>>) =>
    LET l == locks[tx[t].w_set[loc[t].w].lock] IN
      IF LOCK_GET_OWNED(l) = 0 THEN pc'[t] = "acquire_cas"
      ELSE IF PointsInto(t, l)
           THEN pc'[t] \in {"acquire", "commit_ts"} /\ loc'[t].w = loc[t].w - 1
           ELSE pc'[t] = "rollback" /\ loc'[t].reason = "WW_CONFLICT"

(* C22. Deadlock freedom: a transaction that owns a lock is inside commit  *)
(* or rollback, never inside a load or a store, so a transaction that      *)
(* spins on a lock owns none and the owner it spins on does not spin; in   *)
(* the acquire loop a lock found owned by another transaction makes the    *)
(* transaction roll back, one found owned by itself is skipped, one found  *)
(* unowned goes to the compare-and-swap; and in every state in which a     *)
(* thread has not finished, some thread can take a step that changes the   *)
(* state.                                                                  *)
C22_DeadlockFree ==
  /\ [](\A t \in Threads : InLoadOrStore(t) => ~OwnsALock(t))
  /\ [](\A t, u \in Threads :
          SpinsOn(t, u) => (u # t /\ ~InLoadOrStore(u) /\ \A v \in Threads : ~SpinsOn(u, v)))
  /\ [][\A t \in Threads : AcquireNeverWaits(t)]_vars
  /\ [](Done \/ ENABLED <<Next>>_vars)

C22_Witness ==
  /\ scen.name = "cross"
  /\ pc[1] = "acquire"
  /\ pc[2] = "acquire"
  /\ tx[1].nb_acquired = 1
  /\ tx[2].nb_acquired = 1
  /\ PointsInto(1, locks[1])
  /\ PointsInto(2, locks[0])

(* Every thread that can take a step eventually takes one.                 *)
FairSpec == Spec /\ \A t \in Threads : WF_vars(Step(t))

Owned(k) == LOCK_GET_OWNED(locks[k]) # 0

LoadSpins(t) == pc[t] = "rd_lock" /\ Owned(OpLock(t))

StoreAt(t, k) ==
  pc[t] = "run" /\ CurOp(t).op = "store" /\ tx[t].ro = 0 /\ OpLock(t) = k

LoadLooks(t) ==
  pc[t] = "rd_lock" /\ <<pc[t], loc[t], tx[t]>>' # <<pc[t], loc[t], tx[t]>>

StoreLooks(t) ==
  /\ pc[t] = "run"
  /\ CurOp(t).op = "store"
  /\ tx[t].ro = 0
  /\ <<pc[t], loc[t], tx[t]>>' # <<pc[t], loc[t], tx[t]>>

(* One more turn of the loop: nothing but the thread's own copy of the lock *)
(* word and its count of turns changes.                                    *)
SpinsAgain(t) ==
  /\ pc'[t] = pc[t]
  /\ tx'[t] = tx[t]
  /\ ip'[t] = ip[t]
  /\ nabort' = nabort
  /\ shared' = shared
  /\ loc'[t].spins = Spun(loc[t].spins, 1)
  /\ loc'[t].reason = loc[t].reason

(* C24 as stated: the consecutive re-reads of an owned lock by one load or *)
(* store stay below a bound.                                               *)
C24_BoundedSpin == \A t \in Threads : loc[t].spins < MaxSpins

(* C24. Spin: a load or a store that finds its lock owned reads the lock   *)
(* again, and does so as long as the lock is owned, whatever the number of *)
(* its re-reads: such a step changes nothing but the thread's copy of the  *)
(* lock word, it never aborts the transaction, and the load leaves the     *)
(* loop only with a lock word it has read unowned.                         *)
C24_UnboundedSpin ==
  [][\A t \in Threads :
        /\ (LoadLooks(t) /\ LOCK_GET_WRITE(locks[OpLock(t)]) # 0) => SpinsAgain(t)
        /\ (LoadLooks(t) /\ LOCK_GET_WRITE(locks[OpLock(t)]) = 0) =>
              (pc'[t] = "rd_value" /\ loc'[t].l = locks[OpLock(t)] /\ loc'[t].spins = 0)
        /\ (StoreLooks(t) /\ Owned(OpLock(t))) => SpinsAgain(t)
        /\ (StoreLooks(t) /\ ~Owned(OpLock(t))) => loc'[t].spins = 0]_vars

C24_Witness ==
  \E t, u \in Threads :
    /\ SpinsOn(t, u)
    /\ pc[t] = "rd_lock"
    /\ loc[t].spins = MaxSpins
    /\ tx[t].status = TX_ACTIVE

OthersUntouched(t) ==
  \A u \in Threads \ {t} : tx'[u] = tx[u] /\ pc'[u] = pc[u] /\ loc'[u] = loc[u]

(* The acquire loop finds the lock of its entry owned by another transaction *)
FindsConflict(t) ==
  /\ pc[t] = "acquire"
  /\ <<pc[t], loc[t]>>' # <<pc[t], loc[t]>>
  /\ Owned(tx[t].w_set[loc[t].w].lock)
  /\ ~PointsInto(t, locks[tx[t].w_set[loc[t].w].lock])

WWRollback(t) == pc[t] = "rollback" /\ loc[t].reason = "WW_CONFLICT"

WWConflict(t) ==
  /\ FindsConflict(t) =>
       /\ WWRollback(t)'
       /\ tx'[t] = tx[t]
       /\ shared' = shared
       /\ OthersUntouched(t)
  /\ (WWRollback(t) /\ <<pc[t], loc[t], tx[t]>>' # <<pc[t], loc[t], tx[t]>>) =>
       /\ clock' = clock
       /\ mem' = mem
       /\ OthersUntouched(t)
       /\ \A k \in Locks :
            locks'[k] # locks[k] =>
              /\ Owned(k)
              /\ PointsInto(t, locks[k])
              /\ LOCK_GET_OWNED(locks'[k]) = 0
       /\ pc'[t] # "rollback" => (tx'[t].nb_acquired = 0 /\ ~OwnsALock(t)')

(* C25. Write-write conflict: when the acquire loop of a commit finds the  *)
(* lock of its entry owned by another transaction, the step enters the     *)
(* rollback with the reason WW_CONFLICT and changes no shared word and no  *)
(* other thread; the steps of this rollback leave the clock, the memory    *)
(* and the other threads alone, change only locks this transaction owns,   *)
(* each to an unowned word, and when the rollback ends the transaction     *)
(* owns no lock. The rollback is entered from the acquire loop only with   *)
(* this reason, and the acquire loop runs before the commit has taken its  *)
(* timestamp from the clock.                                               *)
C25_WWConflict ==
  /\ [][\A t \in Threads : WWConflict(t)]_vars
  /\ [](\A t \in Threads : pc[t] \in {"acquire", "acquire_cas"} => loc[t].t = 0)
  /\ [][\A t \in Threads :
          (pc[t] \in {"acquire", "acquire_cas"} /\ pc'[t] = "rollback") => FindsConflict(t)]_vars

C25_Witness ==
  \E t, u \in Threads :
    /\ u # t
    /\ WWRollback(t)
    /\ tx[t].nb_acquired = 1
    /\ OwnsALock(t)
    /\ InCommit(u)
    /\ OwnsALock(u)

OwnedBy(t) == {k \in Locks : Owned(k) /\ PointsInto(t, locks[k])}

(* The commit of t is in its write-back: some entry is already stored.     *)
WritingBack(t) ==
  \/ pc[t] = "release"
  \/ pc[t] = "publish" /\ loc[t].i > 1

(* C26 as stated: all through a commit nb_acquired is the number of lock   *)
(* words the transaction owns.                                             *)
C26_CountsOwnedInCommit ==
  \A t \in Threads : InCommit(t) => tx[t].nb_acquired = Cardinality(OwnedBy(t))

RollbackSteps(t) ==
  pc[t] = "rollback" /\ <<pc[t], loc[t], tx[t]>>' # <<pc[t], loc[t], tx[t]>>

RollbackRestores(t) ==
  /\ RollbackSteps(t) =>
       /\ clock' = clock
       /\ mem' = mem
       /\ \A k \in Locks :
            locks'[k] # locks[k] =>
              /\ k \in OwnedBy(t)
              /\ locks'[k] = LOCK_SET_TIMESTAMP(lastver[k])
              /\ LOCK_GET_OWNED(locks'[k]) = 0
              /\ tx'[t].nb_acquired = tx[t].nb_acquired - 1
              /\ \A j \in Locks \ {k} : locks'[j] = locks[j]
       /\ locks' = locks => tx[t].nb_acquired = 0
       /\ pc'[t] # "rollback" => (tx'[t].nb_acquired = 0 /\ OwnedBy(t)' = {})
  /\ (pc[t] = "acquire_cas" /\ tx'[t].nb_acquired # tx[t].nb_acquired) =>
       LET k == tx[t].w_set[loc[t].w].lock IN
         /\ ~Owned(k)
         /\ locks[k] = LOCK_SET_TIMESTAMP(lastver'[k])
         /\ OwnedBy(t)' = OwnedBy(t) \cup {k}
         /\ tx'[t].nb_acquired = tx[t].nb_acquired + 1

(* C26. Rollback restores the lock words: every step of a rollback that    *)
(* writes a lock writes one lock the transaction owns, with the unowned    *)
(* word the lock held just before the transaction's compare-and-swap, and  *)
(* takes one from nb_acquired; the rollback writes no lock once            *)
(* nb_acquired is 0, touches neither the clock nor the memory, and ends    *)
(* with nb_acquired 0 and no lock owned. nb_acquired is the number of lock *)
(* words the transaction owns from the first compare-and-swap of a commit  *)
(* until its write-back begins, and all through a rollback; the releases   *)
(* of the write-back leave nb_acquired as it is.                           *)
C26_RollbackRestores ==
  /\ [][\A t \in Threads : RollbackRestores(t)]_vars
  /\ [](\A t \in Threads :
         ((InCommit(t) /\ ~WritingBack(t)) \/ pc[t] = "rollback") =>
           tx[t].nb_acquired = Cardinality(OwnedBy(t)))
  /\ [][\A t \in Threads :
          (pc[t] = "release" /\ pc'[t] = "publish") =>
            (tx'[t].nb_acquired = tx[t].nb_acquired
             /\ Cardinality(OwnedBy(t)') = Cardinality(OwnedBy(t)) - 1)]_vars

C26_Witness ==
  \E t \in Threads :
    /\ pc[t] = "rollback"
    /\ tx[t].nb_acquired = 0
    /\ OwnedBy(t) = {}
    /\ \E i, j \in 1..Len(tx[t].w_set) :
         /\ tx[t].w_set[i].lock # tx[t].w_set[j].lock
         /\ tx[t].w_set[i].no_drop = 0
         /\ tx[t].w_set[j].no_drop = 0
         /\ locks[tx[t].w_set[i].lock] = LOCK_SET_TIMESTAMP(tx[t].w_set[i].version)
         /\ locks[tx[t].w_set[j].lock] = LOCK_SET_TIMESTAMP(tx[t].w_set[j].version)

(* The last entry of the write set ws that maps to the lock k              *)
LastOf(ws, k) ==
  CHOOSE i \in 1..Len(ws) :
    ws[i].lock = k /\ \A j \in 1..Len(ws) : ws[j].lock = k => j <= i

(* The word at the address of entry e holds what e writes.                 *)
Stored(e) == mem[e.addr] = WriteBack(mem[e.addr], e)

AcquiredByLast(t) ==
  LET ws == tx[t].w_set IN
  /\ \A i \in 1..Len(ws) : ws[i].no_drop = 0 => i = LastOf(ws, ws[i].lock)
  /\ \A k \in OwnedBy(t) :
       /\ k \in LocksOf(ws)
       /\ EntryIndex(t, LOCK_GET_ADDR(locks[k])) = LastOf(ws, k)
       /\ ws[LastOf(ws, k)].no_drop = 0
  /\ (InCommit(t) \/ pc[t] = "rollback") =>
       tx[t].nb_acquired <= Cardinality(LocksOf(ws))

(* The acquire loop on an entry whose lock the transaction already owns    *)
SkipsOwn(t) ==
  (/\ pc[t] = "acquire"
   /\ <<pc[t], loc[t]>>' # <<pc[t], loc[t]>>
   /\ tx[t].w_set[loc[t].w].lock \in OwnedBy(t)) =>
    /\ locks' = locks
    /\ tx'[t] = tx[t]
    /\ pc'[t] \in {"acquire", "commit_ts"}
    /\ loc[t].w # LastOf(tx[t].w_set, tx[t].w_set[loc[t].w].lock)

ReleasedWhenStored(t) ==
  (pc[t] = "release" /\ pc'[t] # "release") =>
    \E k \in OwnedBy(t) :
      /\ \A j \in Locks \ {k} : locks'[j] = locks[j]
      /\ locks'[k] = LOCK_SET_TIMESTAMP(loc[t].t)
      /\ loc[t].i = LastOf(tx[t].w_set, k)
      /\ \A i \in 1..Len(tx[t].w_set) : tx[t].w_set[i].lock = k => Stored(tx[t].w_set[i])

(* C27. Coalesced locks: of the entries of a write set that map to one     *)
(* lock only the last one ever acquires it (it alone has no_drop = 0, and  *)
(* the owned lock word points to it), the acquire loop passes the others   *)
(* without a compare-and-swap, so that nb_acquired never exceeds the       *)
(* number of locks of the write set; the write-back releases the lock at   *)
(* that last entry, with the commit timestamp, when every word of the      *)
(* write set under the lock holds its new value; and while the commit      *)
(* writes back, a lock of its write set that is unowned with the commit's  *)
(* timestamp covers only words already stored.                             *)
C27_CoalescedLocks ==
  /\ [](\A t \in Threads : AcquiredByLast(t))
  /\ [][\A t \in Threads : SkipsOwn(t) /\ ReleasedWhenStored(t)]_vars
  /\ [](\A t \in Publishing : \A i \in 1..Len(tx[t].w_set) :
         LET e == tx[t].w_set[i] IN
           (~Owned(e.lock) /\ LOCK_GET_TIMESTAMP(locks[e.lock]) = loc[t].t) => Stored(e))

C27_Witness ==
  \E t \in Threads :
    /\ pc[t] = "release"
    /\ loc[t].i = 2
    /\ tx[t].w_set[1].lock = tx[t].w_set[2].lock
    /\ tx[t].w_set[1].addr # tx[t].w_set[2].addr
    /\ tx[t].w_set[1].no_drop = 1
    /\ tx[t].nb_acquired = 1
    /\ mem[tx[t].w_set[1].addr] # scen.mem0[tx[t].w_set[1].addr]

LoadOrStoreSteps(t) ==
  /\ \/ InLoadOrStore(t) /\ pc[t] # "run"
     \/ pc[t] = "run" /\ CurOp(t).op \in {"load", "store"}
     \/ pc[t] = "rollback" /\ loc[t].reason \in {"VAL_READ", "VAL_WRITE", "RO_WRITE"}
  /\ <<pc[t], loc[t], tx[t], ip[t]>>' # <<pc[t], loc[t], tx[t], ip[t]>>

(* What the entries of a write set say is to be written, and where         *)
Asked(ws) ==
  [i \in 1..Len(ws) |->
     [addr |-> ws[i].addr, value |-> ws[i].value, mask |-> ws[i].mask,
      lock |-> ws[i].lock]]

NoSharedEffect(t) ==
  /\ LoadOrStoreSteps(t) =>
       /\ locks' = locks
       /\ mem' = mem
       /\ clock' = clock
       /\ OwnedBy(t) = {}
       /\ OwnedBy(t)' = {}
  /\ tx'[t].w_set # tx[t].w_set =>
       (OwnedBy(t) = {} \/ Asked(tx'[t].w_set) = Asked(tx[t].w_set))

OwnedInCommit ==
  \A k \in Locks :
    Owned(k) =>
      \E t \in Threads :
        /\ PointsInto(t, locks[k])
        /\ \A u \in Threads \ {t} : ~PointsInto(u, locks[k])
        /\ InCommit(t) \/ pc[t] = "rollback"
        /\ tx[t].nb_acquired >= 1
        /\ EntryIndex(t, LOCK_GET_ADDR(locks[k])) \in 1..Len(tx[t].w_set)
        /\ tx[t].w_set[EntryIndex(t, LOCK_GET_ADDR(locks[k]))].lock = k

(* C28. Loads and stores have no shared side effect: a step of a load or   *)
(* of a store, the steps of the rollback it ends in included, changes no   *)
(* lock word, no memory word and not the clock, and is taken by a          *)
(* transaction that owns no lock; every owned lock word points to one      *)
(* write-set entry, for that lock, of one transaction, which is inside     *)
(* commit after a successful compare-and-swap or inside the rollback of    *)
(* that commit; and as long as a transaction owns a lock its write set     *)
(* keeps its entries: their number, addresses, values and masks.           *)
C28_NoSharedEffect ==
  /\ [][\A t \in Threads : NoSharedEffect(t)]_vars
  /\ []OwnedInCommit

C28_Witness ==
  \E t, u \in Threads :
    /\ pc[t] = "rollback"
    /\ loc[t].reason = "VAL_WRITE"
    /\ Len(tx[t].r_set) >= 1
    /\ OwnedBy(t) = {}
    /\ InCommit(u)
    /\ OwnedBy(u) # {}

LoadGoesOn(t) == pc'[t] = "run" /\ ip'[t] = ip[t] + 1

LoadAborts(t) == pc'[t] = "rollback" /\ loc'[t].reason = "VAL_READ"

(* The step of the load after its second read of the lock                  *)
VersionCheck(t) ==
  (pc[t] = "rd_lock2" /\ <<pc[t], loc[t], tx[t]>>' # <<pc[t], loc[t], tx[t]>>) =>
    LET l == loc[t].l
        l2 == locks[OpLock(t)]
        v == LOCK_GET_TIMESTAMP(l)
        d == tx[t]
    IN /\ LOCK_GET_OWNED(l) = 0
       /\ l # l2 => (pc'[t] \in {"rd_lock", "rd_value"} /\ tx'[t] = d /\ loc'[t].l = l2)
       /\ (l = l2 /\ v <= d.end) => LoadGoesOn(t)
       /\ (l = l2 /\ v > d.end /\ (d.ro = 1 \/ d.can_extend = 0)) =>
            (LoadAborts(t) /\ tx'[t] = d)
       /\ (l = l2 /\ v > d.end /\ d.ro = 0 /\ d.can_extend = 1) =>
            (pc'[t] = "extend" /\ tx'[t] = d /\ loc'[t].l = l /\ loc'[t].l2 = l)

(* The extension a load has asked for fails                                *)
ExtensionFails(t) ==
  (/\ pc[t] \in {"extend", "validate"}
   /\ loc[t].vret = "read"
   /\ pc'[t] \notin {"extend", "validate", "rd_recheck"}) =>
    (LoadAborts(t) /\ tx'[t] = tx[t])

(* The step of the load after a successful extension                       *)
RecheckAfterExtension(t) ==
  (pc[t] = "rd_recheck" /\ <<pc[t], loc[t], tx[t]>>' # <<pc[t], loc[t], tx[t]>>) =>
    LET l == locks[OpLock(t)]
        l2 == loc[t].l2
    IN /\ loc[t].l = l2
       /\ LOCK_GET_TIMESTAMP(l2) <= tx[t].end
       /\ l = l2 => LoadGoesOn(t)
       /\ l # l2 =>
            (pc'[t] = "rd_value" /\ ip'[t] = ip[t] /\ tx'[t] = tx[t] /\ loc'[t].l = l2)

ReturnsGoodVersion(t) ==
  (pc[t] \in {"rd_lock2", "rd_recheck"} /\ LoadGoesOn(t)) =>
    /\ locks[OpLock(t)] = loc[t].l
    /\ LOCK_GET_OWNED(loc[t].l) = 0
    /\ LOCK_GET_TIMESTAMP(loc[t].l) <= tx[t].end
    /\ tx'[t].end = tx[t].end

(* C29. Stale read: a load that has read the same unowned lock word before *)
(* and after its value, with version v, returns at once when v <= tx.end;  *)
(* with v > tx.end it aborts with VAL_READ when the transaction is         *)
(* read-only or may not extend, and extends otherwise; the extension       *)
(* failing, the load aborts with VAL_READ; the extension done, v <= tx.end *)
(* and the load reads the lock again, returns if the word is the one it    *)
(* had, and else reads the value and the lock again. A load returns only   *)
(* with an unowned lock word, unchanged, of a version v <= tx.end.         *)
C29_StaleRead ==
  [][\A t \in Threads :
       /\ VersionCheck(t)
       /\ ExtensionFails(t)
       /\ RecheckAfterExtension(t)
       /\ ReturnsGoodVersion(t)]_vars

C29_Witness ==
  \E t \in Threads :
    /\ pc[t] = "rd_recheck"
    /\ locks[OpLock(t)] # loc[t].l2
    /\ tx[t].end > tx[t].start
    /\ LOCK_GET_TIMESTAMP(loc[t].l) = tx[t].end

AttemptPcs ==
  {"run", "rd_lock", "rd_value", "rd_lock2", "extend", "validate", "rd_recheck",
   "acquire", "acquire_cas", "commit_ts", "publish", "release"}

InExtension(t) ==
  \/ pc[t] = "extend"
  \/ pc[t] = "validate" /\ loc[t].vret = "read"

ExtensionSteps(t) ==
  InExtension(t) /\ <<pc[t], loc[t], tx[t]>>' # <<pc[t], loc[t], tx[t]>>

(* stm_extend, step by step: the read of the clock, then the validation    *)
ExtendFrame(t) ==
  /\ (ExtensionSteps(t) /\ pc[t] = "extend") =>
       /\ clock >= VERSION_MAX => (pc'[t] = "rollback" /\ tx'[t] = tx[t])
       /\ (clock < VERSION_MAX /\ tx[t].r_set # << >>) =>
            /\ pc'[t] = "validate"
            /\ loc'[t].now = clock
            /\ loc'[t].i = 1
            /\ tx'[t] = tx[t]
       /\ (clock < VERSION_MAX /\ tx[t].r_set = << >>) =>
            /\ pc'[t] = "rd_recheck"
            /\ tx'[t] = [tx[t] EXCEPT !.end = clock]
  /\ (ExtensionSteps(t) /\ pc[t] = "validate") =>
       LET i == loc[t].i
           ok == ValidNow(t, tx[t].r_set[i])
       IN /\ ~ok => (pc'[t] = "rollback" /\ tx'[t] = tx[t])
          /\ (ok /\ i < Len(tx[t].r_set)) => (pc'[t] = "validate" /\ tx'[t] = tx[t])
          /\ (ok /\ i = Len(tx[t].r_set)) =>
               /\ pc'[t] = "rd_recheck"
               /\ tx'[t] = [tx[t] EXCEPT !.end = loc[t].now]
  /\ ExtensionSteps(t) => (shared' = shared /\ tx'[t].end >= tx[t].end)

(* What a step of a running attempt does to the bounds of its snapshot     *)
SnapshotBounds(t) ==
  (pc[t] \in AttemptPcs /\ pc'[t] \in AttemptPcs) =>
    /\ tx'[t].start = tx[t].start
    /\ tx'[t].end > tx[t].end => (InExtension(t) /\ pc'[t] = "rd_recheck")
    /\ tx'[t].end < tx[t].end => (pc[t] = "run" /\ CurOp(t).op = "setext")

(* C30. Snapshot extension: the extension reads the clock, now, fails at   *)
(* once when now >= VERSION_MAX, and else validates the read set, entry by *)
(* entry; when the validation succeeds it sets tx.end to now and nothing   *)
(* else, and when it fails, it leaves the descriptor as it was and the     *)
(* load rolls back. In a running attempt tx.start never changes, tx.end    *)
(* grows only by an extension and falls only by stm_set_extension, and     *)
(* tx.start <= clock, tx.end <= clock, tx.end < VERSION_MAX; the clock     *)
(* value an extension holds lies between tx.end and the clock.             *)
C30_Extension ==
  /\ [][\A t \in Threads : ExtendFrame(t) /\ SnapshotBounds(t)]_vars
  /\ [](\A t \in Threads :
         pc[t] \in AttemptPcs =>
           /\ tx[t].start <= clock
           /\ tx[t].end <= clock
           /\ tx[t].end < VERSION_MAX
           /\ tx[t].start < VERSION_MAX
           /\ (pc[t] = "validate" /\ loc[t].vret = "read") =>
                (tx[t].end <= loc[t].now /\ loc[t].now <= clock /\ loc[t].now < VERSION_MAX))

C30_Witness ==
  \E t \in Threads :
    /\ pc[t] = "rd_recheck"
    /\ Len(tx[t].r_set) >= 1
    /\ tx[t].end > tx[t].start
    /\ tx[t].end = loc[t].now

ReadSetBelow(t, bound) ==
  \A i \in 1..Len(tx[t].r_set) : tx[t].r_set[i].version <= bound

(* C31 as stated: no read-set entry of an active transaction has a version *)
(* above tx.end.                                                           *)
C31_ReadSetBelowEnd ==
  \A t \in Threads : IS_ACTIVE(tx[t].status) => ReadSetBelow(t, tx[t].end)

(* C31. Read-set bound: every read-set entry of an active transaction has  *)
(* a version at most the highest value tx.end has had in the attempt, and  *)
(* at most tx.end itself as long as stm_set_extension has not lowered      *)
(* tx.end in the attempt.                                                  *)
C31_ReadSetBound ==
  \A t \in Threads :
    IS_ACTIVE(tx[t].status) =>
      /\ ReadSetBelow(t, att[t].hiend)
      /\ ~LoweredEnd(t) => ReadSetBelow(t, tx[t].end)
      /\ tx[t].end <= att[t].hiend

C31_Witness ==
  \E t \in Threads :
    /\ IS_ACTIVE(tx[t].status)
    /\ pc[t] = "run"
    /\ LoweredEnd(t)
    /\ Len(tx[t].r_set) >= 1
    /\ tx[t].r_set[1].version > tx[t].end
    /\ tx[t].r_set[1].version = att[t].hiend

(* a step of stm_write that has got past the read-only test and the wait   *)
(* for the lock                                                            *)
StoreChecks(t) ==
  /\ pc[t] = "run"
  /\ CurOp(t).op = "store"
  /\ tx[t].ro = 0
  /\ <<pc[t], tx[t], ip[t]>>' # <<pc[t], tx[t], ip[t]>>

AbortsWith(t, reason) == pc'[t] = "rollback" /\ loc'[t].reason = reason

HasEntryFor(t, addr) == \E i \in 1..Len(tx[t].w_set) : tx[t].w_set[i].addr = addr
HasReadLock(t, lock) == \E i \in 1..Len(tx[t].r_set) : tx[t].r_set[i].lock = lock
StoreVersion(t) == locks[GET_LOCK(CurOp(t).addr)] \div 2^LOCK_BITS

ValWrite(t) ==
  LET addr == CurOp(t).addr IN
  /\ StoreChecks(t) =>
       /\ locks[GET_LOCK(addr)] % 2 = 0
       /\ (/\ ~HasEntryFor(t, addr)
           /\ StoreVersion(t) > tx[t].end
           /\ tx[t].can_extend = 0 \/ HasReadLock(t, GET_LOCK(addr)))
            => (AbortsWith(t, "VAL_WRITE") /\ tx'[t] = tx[t] /\ ip'[t] = ip[t])
       /\ (HasEntryFor(t, addr) \/ StoreVersion(t) <= tx[t].end)
            => (pc'[t] = "run" /\ ip'[t] = ip[t] + 1)
  /\ (pc[t] = "run" /\ CurOp(t).op = "store" /\ AbortsWith(t, "VAL_WRITE")) =>
       /\ ~HasEntryFor(t, addr)
       /\ StoreVersion(t) > tx[t].end
       /\ tx[t].can_extend = 0 \/ HasReadLock(t, GET_LOCK(addr))

(* C32. VAL_WRITE condition: a store (of a transaction that is not         *)
(* read-only) to an address with no write-set entry yet, whose lock is     *)
(* unowned with a version above tx.end, aborts with VAL_WRITE when         *)
(* extension is disabled or the read set has an entry for that lock; a     *)
(* store that finds a version <= tx.end, and a store to an address of the  *)
(* write set, go on to the next operation; and no store aborts with        *)
(* VAL_WRITE in any other case.                                            *)
C32_ValWrite == [][\A t \in Threads : ValWrite(t)]_vars

C32_Witness ==
  \E t \in Threads :
    /\ pc[t] = "rollback"
    /\ loc[t].reason = "VAL_WRITE"
    /\ tx[t].can_extend = 0
    /\ tx[t].r_set = << >>
    /\ CurOp(t).op = "store"
    /\ StoreVersion(t) > tx[t].end

(* a store to an address with no write-set entry, whose lock has a version *)
(* above tx.end, while extension is enabled and the lock was not read      *)
StoreAboveSnapshot(t) ==
  /\ StoreChecks(t)
  /\ ~HasEntryFor(t, CurOp(t).addr)
  /\ StoreVersion(t) > tx[t].end
  /\ tx[t].can_extend = 1
  /\ ~HasReadLock(t, GET_LOCK(CurOp(t).addr))

(* C33 as stated: when such a store returns normally, tx.end has been      *)
(* brought up to the version of the lock.                                  *)
C33_ExtensionOnWrite ==
  [][\A t \in Threads :
      (StoreAboveSnapshot(t) /\ pc'[t] = "run") => tx'[t].end >= StoreVersion(t)]_vars

NewestEntry(ws) == ws[Len(ws)]

StoreKeepsSnapshot(t) ==
  /\ (pc[t] = "run" /\ CurOp(t).op = "store") =>
       /\ tx'[t].end = tx[t].end
       /\ tx'[t].start = tx[t].start
       /\ tx'[t].r_set = tx[t].r_set
       /\ tx'[t].can_extend = tx[t].can_extend
       /\ pc'[t] \in {"run", "rollback"}
  /\ StoreAboveSnapshot(t) =>
       /\ pc'[t] = "run"
       /\ ip'[t] = ip[t] + 1
       /\ Len(tx'[t].w_set) = Len(tx[t].w_set) + 1
       /\ SubSeq(tx'[t].w_set, 1, Len(tx[t].w_set)) = tx[t].w_set
       /\ NewestEntry(tx'[t].w_set).addr = CurOp(t).addr
       /\ NewestEntry(tx'[t].w_set).version = StoreVersion(t)
       /\ tx'[t].end < StoreVersion(t)

(* C33. Store above the snapshot: a store to an address with no write-set  *)
(* entry yet, whose lock is unowned with a version v > tx.end, while       *)
(* extension is enabled and the read set holds no entry for that lock,     *)
(* attempts no extension and never aborts: it appends its write-set entry  *)
(* and returns with tx.end unchanged, so with tx.end < v. No store changes *)
(* tx.start, tx.end or the read set.                                       *)
C33_StoreKeepsSnapshot == [][\A t \in Threads : StoreKeepsSnapshot(t)]_vars

C33_Witness ==
  \E t \in Threads :
    /\ pc[t] = "run"
    /\ IS_ACTIVE(tx[t].status)
    /\ tx[t].can_extend = 1
    /\ Len(tx[t].w_set) >= 1
    /\ NewestEntry(tx[t].w_set).version > att[t].hiend
    /\ ~HasReadLock(t, NewestEntry(tx[t].w_set).lock)

(* C34 as stated: once a store has cleared the read_only attribute, the    *)
(* attempts of the transaction run in read-write mode: no running attempt  *)
(* has tx.ro set with the attribute cleared, and no attempt that follows   *)
(* the clearing aborts with RO_WRITE.                                      *)
C34_RetryReadWrite ==
  \A t \in Threads :
    (pc[t] = "run" /\ IS_ACTIVE(tx[t].status) /\ tx[t].attr.read_only = 0) =>
      tx[t].ro = 0

GivenAttr(t) == [read_only |-> CurTx(t).read_only, no_retry |-> CurTx(t).no_retry]

(* C35 as stated, for the attributes: a running attempt has the attributes *)
(* given at begin.                                                         *)
C35_AttributesKept ==
  \A t \in Threads :
    (pc[t] = "run" /\ IS_ACTIVE(tx[t].status)) => tx[t].attr = GivenAttr(t)

(* the step that lets an attempt start: the end of stm_prepare, reached     *)
(* from stm_start, from stm_rollback or from the rollover barrier           *)
AttemptStarts(t) == pc[t] \in {"idle", "rollback", "prepare"} /\ pc'[t] = "run"

FreshDescriptor(t) ==
  AttemptStarts(t) =>
    /\ tx'[t].status = TX_ACTIVE
    /\ tx'[t].start = clock /\ tx'[t].end = clock
    /\ tx'[t].start < VERSION_MAX
    /\ tx'[t].can_extend = 1
    /\ tx'[t].r_set = << >> /\ tx'[t].w_set = << >>
    /\ tx'[t].nb_acquired = 0
    /\ tx'[t].nesting = 1
    /\ ip'[t] = 1
    /\ pc[t] = "idle" => tx'[t].attr = GivenAttr(t)
    /\ pc[t] # "idle" => (tx'[t].attr = tx[t].attr /\ tx'[t].ro = tx[t].ro)

AttrChanges(t) ==
  (pc[t] \in AttemptPcs /\ tx'[t].attr # tx[t].attr) =>
    /\ pc[t] = "run" /\ CurOp(t).op = "store" /\ tx[t].ro = 1
    /\ AbortsWith(t, "RO_WRITE")
    /\ tx'[t].attr = [tx[t].attr EXCEPT !.read_only = 0]

(* C35. State at the start of every attempt: after a top-level begin, and  *)
(* after every automatic retry, the descriptor has status ACTIVE,          *)
(* tx.start = tx.end = the clock value just read, extension enabled, empty *)
(* read and write sets, nb_acquired = 0 and nesting depth 1; the retry     *)
(* leaves the attributes as the aborted attempt left them: they are the    *)
(* ones given at begin, except that read_only is cleared once a store of   *)
(* the transaction has aborted with RO_WRITE; no transaction is ever       *)
(* ACTIVE with tx.start >= VERSION_MAX.                                    *)
C35_AttemptStart ==
  /\ [][\A t \in Threads : FreshDescriptor(t) /\ AttrChanges(t)]_vars
  /\ [](\A t \in Threads :
         /\ IS_ACTIVE(tx[t].status) => tx[t].start < VERSION_MAX
         /\ pc[t] \in AttemptPcs =>
              /\ tx[t].attr.no_retry = GivenAttr(t).no_retry
              /\ tx[t].ro = GivenAttr(t).read_only
              /\ tx[t].attr.read_only \in {0, GivenAttr(t).read_only})

C35_Witness ==
  \E t \in Threads :
    /\ pc[t] = "run" /\ ip[t] = 1
    /\ nabort > 0
    /\ tx[t].status = TX_ACTIVE
    /\ tx[t].start = clock /\ tx[t].end = clock /\ clock > 0
    /\ tx[t].r_set = << >> /\ tx[t].w_set = << >>
    /\ tx[t].attr.read_only = 0 /\ GivenAttr(t).read_only = 1

RollbackIsOver(t) == pc[t] = "rollback" /\ pc'[t] # "rollback"

(* C36 as stated, for the depth: the rollback of an abort leaves the        *)
(* nesting depth at 0.                                                     *)
C36_DepthZero ==
  [][\A t \in Threads : RollbackIsOver(t) => tx'[t].nesting = 0]_vars

AbortUnderNesting(t) ==
  /\ (pc[t] # "rollback" /\ pc'[t] = "rollback") =>
       /\ tx[t].nesting >= 1 \/ pc[t] \in {"acquire", "acquire_cas", "validate"}
       /\ tx'[t].nesting = tx[t].nesting
       /\ mem' = mem
  /\ (pc[t] = "rollback" /\ <<pc[t], tx[t], loc[t]>>' # <<pc[t], tx[t], loc[t]>>) =>
       /\ mem' = mem /\ clock' = clock
       /\ \A k \in DOMAIN locks : locks'[k] # locks[k] => (k \in OwnedBy(t) /\ ~Owned(k)')
  /\ RollbackIsOver(t) =>
       /\ OwnedBy(t) = {}
       /\ tx[t].nb_acquired = 0
       /\ locks' = locks
       /\ NoRestart(t) =>
            /\ tx'[t].nesting = 0 /\ tx'[t].status = TX_ABORTED
            /\ pc'[t] = "idle" /\ txi'[t] = txi[t] + 1
       /\ ~NoRestart(t) =>
            /\ tx'[t].nesting = 1
            /\ txi'[t] = txi[t]
            /\ pc'[t] = "run" => (ip'[t] = 1 /\ tx'[t].w_set = << >> /\ tx'[t].r_set = << >>)
            /\ pc'[t] # "run" => (pc'[t] = "bar_enter" /\ tx'[t].status = TX_ABORTED)

(* C36. Abort under nesting: an abort raised at any nesting depth d >= 1    *)
(* rolls back the whole top-level transaction: the rollback writes no      *)
(* memory word, releases every lock the transaction owns and discards the  *)
(* stores of all levels; it leaves the depth at 0 when it returns to the   *)
(* caller (no_retry, or an explicit abort) and at 1 when the transaction   *)
(* is retried, which restarts the body of the top-level transaction.       *)
C36_AbortUnderNesting == [][\A t \in Threads : AbortUnderNesting(t)]_vars

C36_Witness ==
  \E t \in Threads :
    /\ pc[t] = "rollback"
    /\ tx[t].nesting >= 2
    /\ ~NoRestart(t)
    /\ Len(tx[t].w_set) >= 1
    /\ tx[t].nb_acquired = 0

StoredAddrs(sl) == {sl[j].addr : j \in 1..Len(sl)}

OneEntryPerAddress(t) ==
  LET ws == tx[t].w_set IN
  /\ \A i, j \in 1..Len(ws) : ws[i].addr = ws[j].addr => i = j
  /\ {ws[i].addr : i \in 1..Len(ws)} = StoredAddrs(att[t].slog)
  /\ \A i \in 1..Len(ws) : \A b \in 0..(WORD_BITS - 1) :
        Bit(ws[i].mask, b) = 1 <=> LastCover(att[t].slog, ws[i].addr, b) # 0

PublishSteps(t) ==
  pc[t] = "publish" /\ <<pc[t], loc[t]>>' # <<pc[t], loc[t]>>

PublishedWord(t) ==
  PublishSteps(t) =>
    LET a == tx[t].w_set[loc[t].i].addr IN
    /\ mem'[a] = OverlayFrom(att[t].slog, a, mem[a], 0)
    /\ \A x \in Addrs \ {a} : mem'[x] = mem[x]
    /\ (\A j \in 1..Len(att[t].slog) :
          att[t].slog[j].addr = a => att[t].slog[j].mask = 0) => mem'[a] = mem[a]

(* C37. Partial-word stores: the write set holds at most one entry per      *)
(* address, for exactly the addresses the attempt has stored to, with the  *)
(* union of the masks of these stores; the write-back of an entry leaves   *)
(* in the word, bit by bit, the bit it finds in memory when no store of    *)
(* the attempt to the address covers the bit, and else the bit of the last *)
(* store whose mask covers it; stores of mask 0 change no bit.             *)
C37_PartialWord ==
  /\ [](\A t \in Threads :
         pc[t] \in AttemptPcs \cup {"rollback"} => OneEntryPerAddress(t))
  /\ [][\A t \in Threads : PublishedWord(t)]_vars

C37_Witness ==
  \E t \in Threads :
    /\ scen.name = "masks"
    /\ pc[t] = "release"
    /\ Len(att[t].slog) > Len(tx[t].w_set)
    /\ tx[t].w_set[1].mask \notin {0, ALL_ONES}
    /\ mem[0] # tx[t].w_set[1].value
    /\ mem[0] = OverlayFrom(att[t].slog, 0, scen.mem0[0], 0)
    /\ mem[0] # scen.mem0[0]

StepOf(t) == <<pc[t], loc[t], tx[t]>>' # <<pc[t], loc[t], tx[t]>>

AfterTimestamp(t) ==
  \/ pc[t] \in {"publish", "release"}
  \/ pc[t] = "validate" /\ loc[t].vret = "commit"

ClockTicks(t) ==
  \* the fetch-and-increment, with every lock of the write set acquired
  /\ (pc[t] = "commit_ts" /\ StepOf(t)) =>
       /\ clock' = clock + 1
       /\ loc'[t].t = clock + 1
       /\ pc'[t] \in {"validate", "publish"}
       /\ Len(tx[t].w_set) > 0
       /\ LocksOf(tx[t].w_set) = OwnedBy(t)
  /\ (pc[t] # "commit_ts" /\ pc'[t] = "commit_ts") =>
       (pc[t] \in {"acquire", "acquire_cas"} /\ clock' = clock /\ loc[t].t = 0)
  \* once it has its timestamp the commit takes no other
  /\ (AfterTimestamp(t) /\ StepOf(t)) =>
       /\ clock' = clock
       /\ pc'[t] \notin {"acquire", "acquire_cas", "commit_ts"}
       /\ AfterTimestamp(t)' => loc'[t].t = loc[t].t
       /\ loc[t].t >= 1 /\ loc[t].t <= clock
       /\ pc'[t] = "rollback" => loc'[t].reason = "VALIDATE"
  /\ (pc[t] = "rollback" /\ StepOf(t)) => clock' = clock
  \* the commit of an empty write set
  /\ (/\ pc[t] = "run" /\ CurOp(t).op = "commit" /\ StepOf(t)
      /\ tx[t].nesting = 1 /\ tx[t].w_set = << >>) =>
       (clock' = clock /\ pc'[t] = "idle" /\ tx'[t].status = TX_COMMITTED)
  /\ (pc[t] # "rollback" /\ AbortsWith(t, "WW_CONFLICT")) =>
       (pc[t] \in {"acquire", "acquire_cas"} /\ clock' = clock /\ loc[t].t = 0)
  /\ (pc[t] # "rollback" /\ AbortsWith(t, "VALIDATE")) =>
       (pc[t] = "validate" /\ loc[t].vret = "commit" /\ loc[t].t >= 1)

ReleaseCarriesTimestamp(t) ==
  (pc[t] = "release" /\ StepOf(t)) =>
    /\ \A k \in Locks :
         locks'[k] # locks[k] =>
           /\ k \in OwnedBy(t)
           /\ locks'[k] \div 2^LOCK_BITS = loc[t].t
           /\ locks'[k] % 2^LOCK_BITS = 0
    /\ locks' # locks
    /\ \E i \in 1..Len(clog) :
         clog[i].th = t /\ clog[i].txi = txi[t] /\ clog[i].stamp = Stamp(loc[t].t)

(* C38. Clock ticks and timestamps: a commit with a non-empty write set     *)
(* that has acquired all its locks does one fetch-and-increment of the     *)
(* clock, and no other before it ends, by write-back or by a VALIDATE      *)
(* abort; the commit of an empty write set and an attempt aborted with     *)
(* WW_CONFLICT do none; the clock changes by such an increment or by the   *)
(* rollover only; two decided commits never have the same timestamp in     *)
(* the same epoch; and a committing transaction releases each of its       *)
(* locks with exactly its timestamp as version.                            *)
C38_ClockTicks ==
  /\ [][/\ \A t \in Threads : ClockTicks(t) /\ ReleaseCarriesTimestamp(t)
        /\ clock' # clock =>
             \/ clock' = 0 /\ epoch' = epoch + 1
             \/ \E t \in Threads : pc[t] = "commit_ts" /\ StepOf(t)]_vars
  /\ [](/\ \A i, j \in 1..Len(clog) : clog[i].stamp = clog[j].stamp => i = j
        /\ \A t, u \in Threads :
             (AfterTimestamp(t) /\ AfterTimestamp(u) /\ loc[t].t = loc[u].t) => t = u)

C38_Witness ==
  /\ scen.clock0 = 0 /\ epoch = 0
  /\ Len(clog) >= 2
  /\ nabort >= 1
  /\ \E t \in Threads :
       /\ pc[t] = "rollback" /\ loc[t].reason = "VALIDATE"
       /\ clock > Len(clog)
  /\ \E k \in Locks : locks[k] = LOCK_SET_TIMESTAMP(clock - 1)

(* the threads that may still take a commit timestamp without beginning a *)
(* new attempt: those inside an attempt that has not taken one             *)
BeforeTimestamp ==
  {t \in Threads : pc[t] \in AttemptPcs \cup {"rollback"} /\ ~AfterTimestamp(t)
                     /\ ~(pc[t] = "rollback" /\ loc[t].reason = "VALIDATE")}

ClockExhausted(t) ==
  (clock >= VERSION_MAX /\ StepOf(t)) =>
    /\ ~AttemptStarts(t)
    /\ (pc[t] \in AttemptPcs /\ pc'[t] \in AttemptPcs) => tx'[t].end <= tx[t].end
    /\ pc[t] \in {"idle", "prepare"} => pc'[t] \in {"bar_enter", "done"}
    /\ (pc[t] = "rollback" /\ pc'[t] # "rollback") => pc'[t] \in {"bar_enter", "idle"}
    /\ pc[t] = "extend" => pc'[t] = "rollback"

(* C39. Clock bound: the clock and the version of every unowned lock never *)
(* exceed VERSION_MAX + N, N the number of threads, so the version shifted *)
(* by the lock bits fits the lock word; while the clock is at VERSION_MAX  *)
(* or above no attempt starts (begin and retry lead to the barrier) and no *)
(* extension succeeds; and the ticks above VERSION_MAX plus the threads    *)
(* that may still take a timestamp are fewer than N: each thread ticks at  *)
(* most once more.                                                         *)
C39_ClockBound ==
  /\ [](/\ clock <= VERSION_MAX + NThreads
        /\ \A k \in Locks :
             ~Owned(k) =>
                  /\ locks[k] < 2^WORD_BITS
                  /\ LOCK_GET_TIMESTAMP(locks[k]) <= VERSION_MAX + NThreads
                  /\ LOCK_GET_TIMESTAMP(locks[k]) <= clock
                  /\ LOCK_GET_TIMESTAMP(locks[k]) * 2^LOCK_BITS = locks[k]
        /\ clock >= VERSION_MAX =>
             (clock - VERSION_MAX) + Cardinality(BeforeTimestamp) <= NThreads - 1)
  /\ [][\A t \in Threads : ClockExhausted(t)]_vars

C39_Witness ==
  /\ clock = VERSION_MAX + NThreads - 1
  /\ \E k \in Locks : ~Owned(k) /\ LOCK_GET_TIMESTAMP(locks[k]) = clock
  /\ \E t \in Threads : pc[t] \in {"bar_enter", "bar_loop", "bar_wait"}

AtBarrier(t) == pc[t] \in {"bar_enter", "bar_loop", "bar_wait"}

(* the threads that have left the count of running threads: threads_nb--   *)
(* done, threads_nb++ not yet                                              *)
CountedOut == {t \in Threads : pc[t] \in {"bar_loop", "bar_wait"}}

(* C40 as stated, for the reset: once the clock has reached VERSION_MAX,    *)
(* the reset is eventually executed.                                       *)
C40_ResetExecuted == (clock >= VERSION_MAX) ~> (clock < VERSION_MAX)

BarrierCounts ==
  /\ threads_nb = Cardinality(threads) - Cardinality(CountedOut)
  /\ (\A t \in Threads : ~AtBarrier(t)) => threads_nb = Cardinality(threads)
  /\ \A t \in Threads :
       /\ (pc[t] = "bar_wait" /\ quiesce = 0) => t \in woken
       /\ AtBarrier(t) => t \in threads
       /\ (AtBarrier(t) /\ quiesce # 0) => clock >= VERSION_MAX

(* C40. Rollover barrier liveness: every thread takes steps as long as it  *)
(* can. A thread that has entered the barrier eventually leaves it and     *)
(* starts its transaction, which takes the reset: the clock is below       *)
(* VERSION_MAX when it starts; once the barrier is released every waiting  *)
(* thread has been woken; threads_nb is the number of registered threads   *)
(* less those standing in the barrier, so it is back to the number of      *)
(* registered threads when the barrier is empty.                           *)
C40_BarrierLiveness ==
  /\ \A t \in Threads : AtBarrier(t) ~> (pc[t] = "run" /\ clock < VERSION_MAX)
  /\ []BarrierCounts

C40_Witness ==
  /\ epoch = 1
  /\ clock < VERSION_MAX
  /\ quiesce = 0
  /\ threads_nb = Cardinality(threads)
  /\ \A t \in Threads : ~AtBarrier(t)
  /\ \E t \in Threads : pc[t] = "run" /\ tx[t].start = 0 /\ IS_ACTIVE(tx[t].status)

====
